---- MODULE Spec2Model ----
(***************************************************************************)
(* reposystem: slot store, plan store and audit store, and the commands    *)
(* that act on them (binding bind/unbind, provider create/delete, plan     *)
(* create/rollback/delete, apply apply/undo).                              *)
(*                                                                         *)
(* Every command loads the stores, works on the loaded copy and saves it,  *)
(* so one command is one atomic step on the persisted stores.  A command   *)
(* that returns an error before its save leaves the stores untouched.      *)
(* SpecApplies splits apply into its load and its save, for two processes  *)
(* on one data directory.                                                  *)
(*                                                                         *)
(* The graph engine (EcosystemGraph: add_repo, add_edge, add_group, load,  *)
(* save) is held by a client of the library; the edge and group commands   *)
(* work on graph.json in the data directory.  SpecSave splits save into    *)
(* its write calls, beside a process that loads.  The aspect commands     *)
(* (aspect tag/remove) work on aspects.json; SpecAspects runs them beside  *)
(* a client that saves and loads, from data directories whose documents    *)
(* are missing, empty or saved from a new graph.                           *)
(*                                                                         *)
(* SpecOracle calls check_compatibility on stores of one slot and one      *)
(* provider; SpecDirs runs the commands under every environment that       *)
(* selects the data directory.  SpecTiming lets the clock advance while an *)
(* apply or an undo runs; SpecOps calls execute_operation with operations  *)
(* of every kind on binding lists of up to three bindings; SpecDerive runs *)
(* plan create on stores with fallback, incompatible and missing providers.*)
(*                                                                         *)
(* Option<T> is modelled as a sequence: <<>> is None, <<x>> is Some(x).    *)
(***************************************************************************)
EXTENDS Integers, Sequences, FiniteSets, TLC

\* ------------------------------------------------------------------ bounds
\* Spec: the commands of one second
MaxPlans == 2

MaxAudit == 1

MaxBindings == 1

MaxNesting == 1

\* SpecClock: the commands and the clock
MaxTime == 1

\* the longest operation list whose overall risk is compared with its maximum
MaxOps == 3

ClockMaxPlans == 1

ClockMaxAudit == 2

\* SpecSlots: the commands and slot and provider create and delete
SlotsMaxPlans == 1

SlotsMaxAudit == 1

SlotsMaxBindings == 2

\* SpecCompat: the commands, with a provider the slot is not compatible with
CompatMaxPlans == 1

CompatMaxAudit == 2

\* SpecApplies: apply processes that run at the same time
NumApplies == 2

AppliesMaxAudit == 2

\* SpecSave: the most tokens one write call puts into a document
WriteChunk == 2

\* SpecOps: the longest binding list an operation is executed on
OpsMaxBindings == 3

\* ---------------------------------------------------------------- universe
Consumers == {"repo:local:c1"}

SlotId == "slot:cat.s1"

Slot1 ==
  [id |-> SlotId, name |-> "s1", interface_version |-> <<"v1">>,
   required_capabilities |-> {"run"}]

\* Providers made by `provider create` for the slot, in the order of their
\* creation.  p2 declares no interface version.
MkProvider(id, name, ptype, ver, caps, prio, fb) ==
  [id |-> id, name |-> name, slot_id |-> SlotId,
   provider_type |-> ptype, interface_version |-> ver, capabilities |-> caps,
   priority |-> prio, is_fallback |-> fb]

P1 == MkProvider("provider:cat.s1:p1", "p1", "local", <<"v1">>, {"run"}, 1, FALSE)

P2 == MkProvider("provider:cat.s1:p2", "p2", "ecosystem", <<>>, {"run"}, 2, FALSE)

P3 == MkProvider("provider:cat.s1:p3", "p3", "external", <<"v1">>, {"run", "push"}, 3, FALSE)

ProviderCatalogue == <<P1, P2, P3>>

ProviderIds == {ProviderCatalogue[i].id : i \in 1..Len(ProviderCatalogue)}

\* GraphStore.repos and GraphStore.scenarios, which no command below changes
Repos == <<[id |-> "repo:local:c1", name |-> "c1"]>>

ScenarioStore == <<[id |-> "scenario:sc", name |-> "sc"]>>

PlanNames == {"alt"}

\* A second slot, whose name holds a ':', and the providers of the two slots
\* that `provider create` gives one and the same id: "p:x" for cat.s1 and
\* "x" for cat.s1:p.  p4 declares another interface version than its slot.
SlotBId == "slot:cat.s1:p"

SlotB ==
  [id |-> SlotBId, name |-> "s1:p", interface_version |-> <<"v1">>,
   required_capabilities |-> {"run"}]

SlotIds == {SlotId, SlotBId}

PX == MkProvider("provider:cat.s1:p:x", "p:x", "local", <<"v1">>, {"run"}, 2, FALSE)

QX == [PX EXCEPT !.name = "x", !.slot_id = SlotBId]

P4 == MkProvider("provider:cat.s1:p4", "p4", "local", <<"v2">>, {"run"}, 4, FALSE)

\* ------------------------------------------------------------------- state
VARIABLES
  slots,        \* SlotStore.slots
  providers,    \* SlotStore.providers
  bindings,     \* SlotStore.bindings
  annotations,  \* AspectStore.annotations
  plans,        \* PlanStore.plans
  audit,        \* AuditStore.entries
  now,          \* Utc::now(), in seconds
  out,          \* the record of the last command
  running,      \* the stores loaded by each apply process that has not saved yet
  graph,        \* the EcosystemGraph of a client of the library
  files,        \* graph.json and aspects.json in the data directory
  saving,       \* the document a save is writing, and its text
  read,         \* what the last load read from the data directory
  ret,          \* the last call of the graph engine and its result
  env           \* the environment of the commands: REPOSYSTEM_DATA_DIR, the
                \* platform's user-data directory, the working directory

vars == <<slots, providers, bindings, annotations, plans, audit, now, out,
          running, graph, files, saving, read, ret, env>>

\* the variables of the graph engine and its two documents
graphVars == <<graph, files, saving, read, ret>>

stores == <<slots, providers, bindings, annotations, plans, audit>>

\* ----------------------------------------------------------------- helpers
None == <<>>

Some(x) == <<x>>

Last(s) == s[Len(s)]

Reverse(s) == [i \in 1..Len(s) |-> s[Len(s) + 1 - i]]

AnyOf(s, Test(_)) == \E i \in 1..Len(s) : Test(s[i])

\* Iterator::find: the first element that passes, as an Option
Find(s, Test(_)) ==
  IF AnyOf(s, Test)
  THEN Some(s[CHOOSE i \in 1..Len(s) : Test(s[i]) /\ \A j \in 1..(i - 1) : ~Test(s[j])])
  ELSE None

\* Iterator::position
Position(s, Test(_)) ==
  IF AnyOf(s, Test)
  THEN CHOOSE i \in 1..Len(s) : Test(s[i]) /\ \A j \in 1..(i - 1) : ~Test(s[j])
  ELSE 0

RemoveAt(s, k) == [i \in 1..(Len(s) - 1) |-> IF i < k THEN s[i] ELSE s[i + 1]]

IsPrefix(s, t) == Len(s) <= Len(t) /\ \A i \in 1..Len(s) : s[i] = t[i]

\* str::starts_with
StartsWith(s, prefix) == Len(s) >= Len(prefix) /\ SubSeq(s, 1, Len(prefix)) = prefix

RECURSIVE Flatten(_)
Flatten(ss) == IF ss = <<>> THEN <<>> ELSE Head(ss) \o Flatten(Tail(ss))

\* ---------------------------------------------------------------- identity
\* str::replace(pat, rep): every occurrence, left to right
RECURSIVE StrReplace(_, _, _)
StrReplace(s, pat, rep) ==
  IF Len(s) < Len(pat) THEN s
  ELSE IF SubSeq(s, 1, Len(pat)) = pat
       THEN rep \o StrReplace(SubSeq(s, Len(pat) + 1, Len(s)), pat, rep)
       ELSE SubSeq(s, 1, 1) \o StrReplace(SubSeq(s, 2, Len(s)), pat, rep)

\* s.split(':').last()
RECURSIVE LastSegment(_)
LastSegment(s) ==
  IF \E i \in 1..Len(s) : SubSeq(s, i, i) = ":"
  THEN LastSegment(SubSeq(s, 1 + (CHOOSE i \in 1..Len(s) : SubSeq(s, i, i) = ":"), Len(s)))
  ELSE s

UpperCase == "ABCDEFGHIJKLMNOPQRSTUVWXYZ"

LowerCase == "abcdefghijklmnopqrstuvwxyz"

\* str::to_lowercase, on ASCII
RECURSIVE ToLowercase(_)
ToLowercase(s) ==
  IF s = "" THEN ""
  ELSE LET c == SubSeq(s, 1, 1)
           k == {i \in 1..Len(UpperCase) : SubSeq(UpperCase, i, i) = c}
       IN  (IF k = {} THEN c ELSE SubSeq(LowerCase, CHOOSE i \in k : TRUE, CHOOSE i \in k : TRUE))
           \o ToLowercase(SubSeq(s, 2, Len(s)))

\* Slot::generate_id: "slot:<category>.<name>"
SlotGenerateId(category, name) ==
  "slot:" \o ToLowercase(category) \o "." \o ToLowercase(name)

\* Provider::generate_id: "provider:<slot-short>:<name>"
ProviderGenerateId(slot_id, name) ==
  "provider:" \o StrReplace(slot_id, "slot:", "") \o ":" \o ToLowercase(name)

\* SlotBinding::generate_id: "binding:<consumer-short>:<slot-short>"
BindingGenerateId(consumer_id, slot_id) ==
  LET consumer_short == StrReplace(StrReplace(StrReplace(consumer_id, "repo:", ""), "/", "-"), ":", "-")
      slot_short     == StrReplace(slot_id, "slot:", "")
  IN  "binding:" \o consumer_short \o ":" \o slot_short

\* the id the executor mints: "binding:<slot>:<consumer>:<provider>", each
\* part being the last ':'-separated segment of the id
ApplyBindingId(slot_id, consumer_id, provider_id) ==
  "binding:" \o LastSegment(slot_id) \o ":" \o LastSegment(consumer_id)
             \o ":" \o LastSegment(provider_id)

\* Plan::generate_id: "plan:<scenario-short>:<YYYYMMDDhhmmss>"
PlanGenerateId(scenario_id, t) ==
  "plan:" \o StrReplace(scenario_id, "scenario:", "") \o ":" \o ToString(t)

\* PlanStore::generate_rollback: "plan:rollback:" + plan.id.replace("plan:", "")
RollbackPlanId(plan_id) == "plan:rollback:" \o StrReplace(plan_id, "plan:", "")

\* a check_compatibility that compares the two interface versions as they
\* are, declared or not
CheckCompatibilityStrict(slot_id, provider_id) ==
  LET slot     == Find(slots, LAMBDA s : s.id = slot_id)
      provider == Find(providers, LAMBDA p : p.id = provider_id)
  IN  IF slot = None \/ provider = None
      THEN [compatible |-> FALSE, version_match |-> FALSE, capabilities_missing |-> {}]
      ELSE LET s == slot[1]
               p == provider[1]
               version_match == s.interface_version = p.interface_version
               missing == s.required_capabilities \ p.capabilities
           IN  IF p.slot_id # slot_id
               THEN [compatible |-> FALSE, version_match |-> FALSE,
                     capabilities_missing |-> s.required_capabilities]
               ELSE [compatible |-> version_match /\ missing = {},
                     version_match |-> version_match,
                     capabilities_missing |-> missing]

\* --------------------------------------------------- compatibility oracle
CheckCompatibility(slot_id, provider_id) ==
  LET slot     == Find(slots, LAMBDA s : s.id = slot_id)
      provider == Find(providers, LAMBDA p : p.id = provider_id)
  IN  IF slot = None \/ provider = None
      THEN [compatible |-> FALSE, version_match |-> FALSE, capabilities_missing |-> {}]
      ELSE LET s == slot[1]
               p == provider[1]
               version_match ==
                 IF s.interface_version # None /\ p.interface_version # None
                 THEN s.interface_version = p.interface_version
                 ELSE TRUE
               missing == s.required_capabilities \ p.capabilities
           IN  IF p.slot_id # slot_id
               THEN [compatible |-> FALSE, version_match |-> FALSE,
                     capabilities_missing |-> s.required_capabilities]
               ELSE [compatible |-> version_match /\ missing = {},
                     version_match |-> version_match,
                     capabilities_missing |-> missing]

\* ---------------------------------------------------------------- executor
OpOk(b) == [ok |-> TRUE, error |-> None, bindings |-> b]

OpErr(e, b) == [ok |-> FALSE, error |-> Some(e), bindings |-> b]

NewBinding(slot_id, consumer_id, provider_id) ==
  [id |-> ApplyBindingId(slot_id, consumer_id, provider_id),
   consumer_id |-> consumer_id, slot_id |-> slot_id, provider_id |-> provider_id,
   mode |-> "manual", created_by |-> "applier"]

\* retain by binding id, and by (slot, consumer) when that removed nothing
RetainOthers(b, binding_id, slot_id, consumer_id) ==
  LET byId == SelectSeq(b, LAMBDA x : x.id # binding_id)
  IN  IF Len(byId) = Len(b)
      THEN SelectSeq(b, LAMBDA x : ~(x.slot_id = slot_id /\ x.consumer_id = consumer_id))
      ELSE byId

\* the checks of the SwitchBinding arm, made after the old binding is removed
SwitchChecked(kept, provider, slot, op) ==
  IF provider = None THEN OpErr("provider_not_found", kept)
  ELSE IF slot = None THEN OpErr("slot_not_found", kept)
  ELSE IF slot[1].interface_version # provider[1].interface_version
       THEN OpErr("version_mismatch", kept)
  ELSE IF ~(slot[1].required_capabilities \subseteq provider[1].capabilities)
       THEN OpErr("missing_capability", kept)
  ELSE OpOk(Append(kept, NewBinding(op.slot_id, op.consumer_id, op.to_provider_id)))

ExecSwitchBinding(b, op) ==
  SwitchChecked(RetainOthers(b, op.binding_id, op.slot_id, op.consumer_id),
                Find(providers, LAMBDA p : p.id = op.to_provider_id),
                Find(slots, LAMBDA s : s.id = op.slot_id), op)

\* a CreateBinding arm that puts the binding in the place of the one the
\* consumer has for the slot
ExecCreateBindingReplacing(b, op) ==
  OpOk(Append(SelectSeq(b, LAMBDA x : ~(x.slot_id = op.slot_id
                                        /\ x.consumer_id = op.consumer_id)),
              NewBinding(op.slot_id, op.consumer_id, op.provider_id)))

ExecCreateBinding(b, op) ==
  IF AnyOf(b, LAMBDA x : x.slot_id = op.slot_id /\ x.consumer_id = op.consumer_id)
  THEN OpErr("binding_exists", b)
  ELSE OpOk(Append(b, NewBinding(op.slot_id, op.consumer_id, op.provider_id)))

RemoveChecked(b, kept) ==
  IF Len(kept) = Len(b) THEN OpErr("binding_not_found", kept) ELSE OpOk(kept)

ExecRemoveBinding(b, op) ==
  RemoveChecked(b, RetainOthers(b, op.binding_id, op.slot_id, op.consumer_id))

ExecuteOperation(b, op) ==
  CASE op.op = "switch_binding" -> ExecSwitchBinding(b, op)
    [] op.op = "create_binding" -> ExecCreateBinding(b, op)
    [] op.op = "remove_binding" -> ExecRemoveBinding(b, op)
    [] op.op = "file_change"    -> OpOk(b)

RollbackReason(reason) == "Rollback: " \o reason

\* reverse_operation: an Option; a FileChange has no reverse
ReverseOperation(op) ==
  CASE op.op = "switch_binding" ->
         Some([op EXCEPT !.from_provider_id = op.to_provider_id,
                         !.to_provider_id = op.from_provider_id,
                         !.reason = RollbackReason(op.reason)])
    [] op.op = "create_binding" ->
         Some([op |-> "remove_binding",
               binding_id |-> ApplyBindingId(op.slot_id, op.consumer_id, op.provider_id),
               consumer_id |-> op.consumer_id, slot_id |-> op.slot_id,
               provider_id |-> op.provider_id, risk |-> op.risk,
               reason |-> RollbackReason(op.reason)])
    [] op.op = "remove_binding" ->
         Some([op |-> "create_binding",
               consumer_id |-> op.consumer_id, slot_id |-> op.slot_id,
               provider_id |-> op.provider_id, risk |-> op.risk,
               reason |-> RollbackReason(op.reason)])
    [] op.op = "file_change" -> None

\* ops.iter().rev().filter_map(reverse_operation).collect()
ReversedOps(ops) == Flatten([i \in 1..Len(ops) |-> ReverseOperation(Reverse(ops)[i])])

OpResult(i, r) == [op_index |-> i, success |-> r.ok, error |-> r.error]

\* One iteration of the forward loop of run_apply: r is the result of the
\* operation at 0-based index i.
Record(acc, i, r) ==
  [bindings |-> r.bindings,
   op_results |-> Append(acc.op_results, OpResult(i, r)),
   failed |-> acc.failed \/ ~r.ok,
   failure_index |-> IF r.ok THEN acc.failure_index ELSE Some(i)]

\* a forward loop that breaks on every failure, whatever auto_rollback is
RECURSIVE ApplyLoopHalting(_, _, _, _)
ApplyLoopHalting(ops, i, auto_rollback, acc) ==
  IF i >= Len(ops) \/ acc.failed THEN acc
  ELSE ApplyLoopHalting(ops, i + 1, auto_rollback,
                        Record(acc, i, ExecuteOperation(acc.bindings, ops[i + 1])))

\* The forward loop of run_apply, which breaks on a failure only when
\* auto_rollback is set.  acc carries the loop's variables.
RECURSIVE ApplyLoop(_, _, _, _)
ApplyLoop(ops, i, auto_rollback, acc) ==
  IF i >= Len(ops) \/ (auto_rollback /\ acc.failed) THEN acc
  ELSE ApplyLoop(ops, i + 1, auto_rollback,
                 Record(acc, i, ExecuteOperation(acc.bindings, ops[i + 1])))

ApplyLoopStart(b) ==
  [bindings |-> b, op_results |-> <<>>, failed |-> FALSE, failure_index |-> None]

RollbackStep(acc, i, op, r) ==
  [ok |-> r.ok, bindings |-> r.bindings, executed |-> Append(acc.executed, op),
   failed_step |-> IF r.ok THEN 0 ELSE i + 1]

\* The loop of execute_rollback: stops at the first failing step.
RECURSIVE RollbackLoop(_, _, _)
RollbackLoop(rops, i, acc) ==
  IF i >= Len(rops) \/ ~acc.ok THEN acc
  ELSE RollbackLoop(rops, i + 1,
                    RollbackStep(acc, i, rops[i + 1],
                                 ExecuteOperation(acc.bindings, rops[i + 1])))

\* no rollback was run
NoRollback(b) == [ok |-> TRUE, bindings |-> b, executed |-> <<>>, failed_step |-> 0]

\* plan.operations[..=up_to_index]
RollbackScope(ops, up_to_index) == SubSeq(ops, 1, up_to_index + 1)

ExecuteRollback(b, plan, up_to_index) ==
  RollbackLoop(ReversedOps(RollbackScope(plan.operations, up_to_index)), 0, NoRollback(b))

RunHealthCheck(b) ==
  /\ \A i \in 1..Len(b) :
       /\ AnyOf(slots, LAMBDA s : s.id = b[i].slot_id)
       /\ AnyOf(providers, LAMBDA p : p.id = b[i].provider_id)
  /\ \A i \in 1..Len(b) :
       \A j \in 1..Len(slots), k \in 1..Len(providers) :
         (slots[j].id = b[i].slot_id /\ providers[k].id = b[i].provider_id)
           => slots[j].interface_version = providers[k].interface_version

\* --------------------------------------------------------- plan derivation
RiskRank(r) ==
  CASE r = "low" -> 0 [] r = "medium" -> 1 [] r = "high" -> 2 [] r = "critical" -> 3

RECURSIVE AnnotationRisk(_, _, _)
AnnotationRisk(anns, from_id, to_id) ==
  IF anns = <<>> THEN 0
  ELSE (IF (Head(anns).target = from_id \/ Head(anns).target = to_id)
            /\ Head(anns).polarity = "risk"
        THEN Head(anns).weight ELSE 0)
       + AnnotationRisk(Tail(anns), from_id, to_id)

AssessBindingSwitchRisk(from_provider, to_provider) ==
  LET risk_score ==
        (IF from_provider.provider_type = "local" /\ to_provider.provider_type = "external"
         THEN 2 ELSE 0)
        + (IF to_provider.is_fallback THEN 1 ELSE 0)
        + (IF from_provider.interface_version # to_provider.interface_version THEN 1 ELSE 0)
        + AnnotationRisk(annotations, from_provider.id, to_provider.id)
  IN  CASE risk_score = 0 -> "low"
        [] risk_score = 1 -> "medium"
        [] risk_score \in 2..3 -> "high"
        [] OTHER -> "critical"

SwitchOp(binding, provider, alt) ==
  [op |-> "switch_binding", binding_id |-> binding.id,
   consumer_id |-> binding.consumer_id, slot_id |-> binding.slot_id,
   from_provider_id |-> binding.provider_id, to_provider_id |-> alt.id,
   risk |-> AssessBindingSwitchRisk(provider, alt),
   reason |-> "Higher priority provider available: " \o alt.name \o " (priority "
              \o ToString(alt.priority) \o ") vs " \o provider.name \o " (priority "
              \o ToString(provider.priority) \o ")"]

\* the operations derived for one binding: one switch per better alternative
\* a derivation that also switches to fallback providers
OpsForBindingWithFallback(binding) ==
  LET current == Find(providers, LAMBDA p : p.id = binding.provider_id)
  IN  IF current = None THEN <<>>
      ELSE LET provider == current[1]
               alternatives ==
                 SelectSeq(providers,
                           LAMBDA p : p.slot_id = binding.slot_id /\ p.id # binding.provider_id)
               chosen ==
                 SelectSeq(alternatives,
                           LAMBDA alt : /\ alt.priority > provider.priority
                                        /\ CheckCompatibility(binding.slot_id, alt.id).compatible)
           IN  [i \in 1..Len(chosen) |-> SwitchOp(binding, provider, chosen[i])]

OpsForBinding(binding) ==
  LET current == Find(providers, LAMBDA p : p.id = binding.provider_id)
  IN  IF current = None THEN <<>>
      ELSE LET provider == current[1]
               alternatives ==
                 SelectSeq(providers,
                           LAMBDA p : p.slot_id = binding.slot_id /\ p.id # binding.provider_id)
               chosen ==
                 SelectSeq(alternatives,
                           LAMBDA alt : /\ alt.priority > provider.priority
                                        /\ ~alt.is_fallback
                                        /\ CheckCompatibility(binding.slot_id, alt.id).compatible)
           IN  [i \in 1..Len(chosen) |-> SwitchOp(binding, provider, chosen[i])]

GeneratePlanOperations == Flatten([i \in 1..Len(bindings) |-> OpsForBinding(bindings[i])])

\* a calculate_overall_risk that takes the risk of the first operation
CalculateOverallRiskFirst(ops) == IF ops = <<>> THEN "low" ELSE Head(ops).risk

\* Plan::calculate_overall_risk: max_by_key keeps the last maximum
RECURSIVE CalculateOverallRisk(_)
CalculateOverallRisk(ops) ==
  IF ops = <<>> THEN "low"
  ELSE LET rest == CalculateOverallRisk(Tail(ops))
       IN  IF Tail(ops) # <<>> /\ RiskRank(rest) >= RiskRank(Head(ops).risk)
           THEN rest ELSE Head(ops).risk

\* PlanStore::generate_rollback
RollbackOfPlanOp(op, plan_id) ==
  CASE op.op = "switch_binding" ->
         Some([op EXCEPT !.from_provider_id = op.to_provider_id,
                         !.to_provider_id = op.from_provider_id,
                         !.reason = "Rollback of plan " \o plan_id])
    [] op.op = "create_binding" ->
         Some([op |-> "remove_binding",
               binding_id |-> BindingGenerateId(op.consumer_id, op.slot_id),
               consumer_id |-> op.consumer_id, slot_id |-> op.slot_id,
               provider_id |-> op.provider_id, risk |-> op.risk,
               reason |-> "Rollback of plan " \o plan_id])
    [] op.op = "remove_binding" ->
         Some([op |-> "create_binding",
               consumer_id |-> op.consumer_id, slot_id |-> op.slot_id,
               provider_id |-> op.provider_id, risk |-> op.risk,
               reason |-> "Rollback of plan " \o plan_id])
    [] op.op = "file_change" -> None

GenerateRollback(plan) ==
  [id |-> RollbackPlanId(plan.id),
   name |-> "Rollback: " \o plan.name,
   scenario_id |-> plan.scenario_id,
   operations |-> Flatten([i \in 1..Len(plan.operations) |->
                             RollbackOfPlanOp(Reverse(plan.operations)[i], plan.id)]),
   overall_risk |-> plan.overall_risk,
   status |-> "draft",
   applied_at |-> None,
   rollback_plan_id |-> None]

\* ---------------------------------------------------------------- commands
\* The record of the last apply or undo command: its flag, the error it
\* returned, the position of its plan in the plan store, the operations
\* announced by its "[rollback i/n] ..." lines, and (a history of the run)
\* the bindings as they were before the last successful apply.
Printed(cmd, dry_run, plan_index, rollback_executed, before) ==
  [cmd |-> cmd, dry_run |-> dry_run, error |-> None, plan_index |-> plan_index,
   rollback_executed |-> rollback_executed, before |-> before]

Failed(cmd, dry_run, e) ==
  [cmd |-> cmd, dry_run |-> dry_run, error |-> Some(e), plan_index |-> 0,
   rollback_executed |-> <<>>, before |-> None]

\* the record after a command other than apply and undo
Other ==
  [cmd |-> "other", dry_run |-> FALSE, error |-> None, plan_index |-> 0,
   rollback_executed |-> <<>>, before |-> None]

\* the (consumer, slot, provider) triples of a binding list
Triples(b) == {<<b[i].consumer_id, b[i].slot_id, b[i].provider_id>> : i \in 1..Len(b)}

\* plans.iter().find(|p| p.id == plan_id || p.name == plan_id)
FindPlan(key) == Find(plans, LAMBDA p : p.id = key \/ p.name = key)

\* plans.iter_mut().find(|p| p.id == id) and the update applied to it
UpdateFirstPlan(ps, id, Update(_)) ==
  LET k == Position(ps, LAMBDA p : p.id = id)
  IN  [i \in 1..Len(ps) |-> IF i = k THEN Update(ps[i]) ELSE ps[i]]

\* a status update that also drops the operations of the plan
StatusAfterApplyClearing(p, result, t) ==
  [p EXCEPT !.status = IF result = "success" THEN "applied" ELSE "draft",
            !.applied_at = IF result = "success" THEN Some(t) ELSE @,
            !.operations = <<>>]

\* run_apply, lines 162-172
StatusAfterApply(p, result, t) ==
  [p EXCEPT !.status = IF result = "success" THEN "applied" ELSE "draft",
            !.applied_at = IF result = "success" THEN Some(t) ELSE @]

\* run_undo, lines 300-306
StatusAfterUndo(p) == [p EXCEPT !.status = "draft", !.applied_at = None]

\* run_apply, lines 113-131: the rollback is run when the loop failed under
\* auto_rollback
Rolling(fw, auto_rollback) == fw.failed /\ auto_rollback /\ fw.failure_index # None

RollbackOf(plan, fw, auto_rollback) ==
  IF Rolling(fw, auto_rollback)
  THEN ExecuteRollback(fw.bindings, plan, fw.failure_index[1])
  ELSE NoRollback(fw.bindings)

\* a result that calls a failed rollback a partial failure
ResultOfPartial(fw, auto_rollback, rb) ==
  IF ~fw.failed THEN "success"
  ELSE IF Rolling(fw, auto_rollback) /\ rb.ok THEN "rolled_back"
  ELSE "partial_failure"

ResultOf(fw, auto_rollback, rb) ==
  IF ~fw.failed THEN "success"
  ELSE IF ~Rolling(fw, auto_rollback) THEN "partial_failure"
  ELSE IF rb.ok THEN "rolled_back" ELSE "failure"

\* a health check that --skip-health-check does not skip
HealthOfUnskipped(skip_health_check, result, b) ==
  IF result = "success" THEN Some(RunHealthCheck(b)) ELSE None

HealthOf(skip_health_check, result, b) ==
  IF ~skip_health_check /\ result = "success" THEN Some(RunHealthCheck(b)) ELSE None

Notes(fw, auto_rollback, rb, health) ==
  (IF fw.failed /\ auto_rollback
   THEN <<"Auto-rollback triggered after operation "
          \o ToString(fw.failure_index[1] + 1) \o " failed">>
   ELSE <<>>)
  \o (IF Rolling(fw, auto_rollback) /\ ~rb.ok
      THEN <<"Rollback failed: Rollback failed at step " \o ToString(rb.failed_step)>>
      ELSE <<>>)
  \o (IF health = Some(FALSE)
      THEN <<"Health check failed - manual review recommended">> ELSE <<>>)

\* the AuditEntry of run_apply: started_at is the clock read before the loop
\* (now); finished_at, the rollback id and applied_at are read after it (now')
ApplyEntry(plan, fw, auto_rollback, rb, result, health) ==
  [id |-> "audit:" \o plan.id \o ":" \o ToString(now),
   plan_id |-> plan.id,
   result |-> result,
   op_results |-> fw.op_results,
   started_at |-> now,
   finished_at |-> now',
   applied_by |-> "applier",
   auto_rollback_triggered |-> Rolling(fw, auto_rollback),
   rollback_plan_id |-> IF result = "rolled_back"
                        THEN Some("rollback:" \o plan.id \o ":" \o ToString(now'))
                        ELSE None,
   health_check_passed |-> health,
   notes |-> Notes(fw, auto_rollback, rb, health)]

\* a run_apply that saves the bindings and the plan but writes no audit entry
ApplyCommitNoEntry(plan, k, auto_rollback, skip_health_check, fw, rb) ==
  /\ bindings' = rb.bindings
  /\ audit' = audit
  /\ plans' = UpdateFirstPlan(plans, plan.id,
                 LAMBDA p : StatusAfterApply(p, ResultOf(fw, auto_rollback, rb), now'))
  /\ out' = Printed("apply", FALSE, k, rb.executed, None)

\* run_apply from the audit entry to the save: fw is the outcome of the
\* forward loop, rb of the rollback
ApplyCommit(plan, k, auto_rollback, skip_health_check, fw, rb) ==
  LET result == ResultOf(fw, auto_rollback, rb)
      health == HealthOf(skip_health_check, result, rb.bindings)
  IN  /\ bindings' = rb.bindings
      /\ audit' = Append(audit, ApplyEntry(plan, fw, auto_rollback, rb, result, health))
      /\ plans' = UpdateFirstPlan(plans, plan.id, LAMBDA p : StatusAfterApply(p, result, now'))
      /\ out' = Printed("apply", FALSE, k, rb.executed,
                        IF result = "success" THEN Some(Triples(bindings)) ELSE None)

ApplyForward(plan, k, auto_rollback, skip_health_check, fw) ==
  ApplyCommit(plan, k, auto_rollback, skip_health_check, fw,
              RollbackOf(plan, fw, auto_rollback))

\* a run_apply whose dry run marks the plan as applied
ApplyFoundDryRunSaves(found, k, dry_run, auto_rollback, skip_health_check) ==
  IF found = None
  THEN /\ out' = Failed("apply", dry_run, "Plan not found")
       /\ UNCHANGED <<bindings, plans, audit>>
  ELSE IF found[1].status = "applied"
  THEN /\ out' = Failed("apply", dry_run, "Plan has already been applied")
       /\ UNCHANGED <<bindings, plans, audit>>
  ELSE IF dry_run
  THEN /\ out' = Printed("apply", TRUE, k, <<>>, None)
       /\ plans' = UpdateFirstPlan(plans, found[1].id,
                      LAMBDA p : StatusAfterApply(p, "success", now'))
       /\ UNCHANGED <<bindings, audit>>
  ELSE ApplyForward(found[1], k, auto_rollback, skip_health_check,
                    ApplyLoop(found[1].operations, 0, auto_rollback,
                              ApplyLoopStart(bindings)))

\* run_apply up to the forward loop: found is the plan looked up, k its
\* position in the plan store
ApplyFound(found, k, dry_run, auto_rollback, skip_health_check) ==
  IF found = None
  THEN /\ out' = Failed("apply", dry_run, "Plan not found")
       /\ UNCHANGED <<bindings, plans, audit>>
  ELSE IF found[1].status = "applied"
  THEN /\ out' = Failed("apply", dry_run, "Plan has already been applied")
       /\ UNCHANGED <<bindings, plans, audit>>
  ELSE IF dry_run
  THEN /\ out' = Printed("apply", TRUE, k, <<>>, None)
       /\ UNCHANGED <<bindings, plans, audit>>
  ELSE ApplyForward(found[1], k, auto_rollback, skip_health_check,
                    ApplyLoop(found[1].operations, 0, auto_rollback,
                              ApplyLoopStart(bindings)))

\* apply apply <key> [--dry-run] [--auto-rollback] [--skip-health-check]
Apply(key, dry_run, auto_rollback, skip_health_check) ==
  /\ UNCHANGED <<slots, providers, annotations, now>>
  /\ ApplyFound(FindPlan(key), Position(plans, LAMBDA p : p.id = key \/ p.name = key),
                dry_run, auto_rollback, skip_health_check)

\* an AuditEntry of run_undo that takes its two times the other way round
UndoEntryTimesSwapped(plan, fw) ==
  [id |-> "audit:undo:" \o plan.id \o ":" \o ToString(now),
   plan_id |-> plan.id,
   result |-> IF fw.failed THEN "partial_failure" ELSE "success",
   op_results |-> fw.op_results,
   started_at |-> now',
   finished_at |-> now,
   applied_by |-> "applier",
   auto_rollback_triggered |-> FALSE,
   rollback_plan_id |-> None,
   health_check_passed |-> None,
   notes |-> <<"Manual undo operation">>]

\* the AuditEntry of run_undo: started_at is the clock read before the loop,
\* finished_at the clock read after it
UndoEntry(plan, fw) ==
  [id |-> "audit:undo:" \o plan.id \o ":" \o ToString(now),
   plan_id |-> plan.id,
   result |-> IF fw.failed THEN "partial_failure" ELSE "success",
   op_results |-> fw.op_results,
   started_at |-> now,
   finished_at |-> now',
   applied_by |-> "applier",
   auto_rollback_triggered |-> FALSE,
   rollback_plan_id |-> None,
   health_check_passed |-> None,
   notes |-> <<"Manual undo operation">>]

\* a run_undo that writes its entry over the entry of the apply
UndoCommitOverwriting(plan, k, fw) ==
  /\ bindings' = fw.bindings
  /\ audit' = Append(SubSeq(audit, 1, Len(audit) - 1), UndoEntry(plan, fw))
  /\ plans' = IF fw.failed THEN plans
              ELSE UpdateFirstPlan(plans, plan.id, StatusAfterUndo)
  /\ out' = Printed("undo", FALSE, k, <<>>, None)

\* run_undo from the audit entry to the save: fw is the outcome of the loop
\* over the reversed operations
UndoCommit(plan, k, fw) ==
  /\ bindings' = fw.bindings
  /\ audit' = Append(audit, UndoEntry(plan, fw))
  /\ plans' = IF fw.failed THEN plans
              ELSE UpdateFirstPlan(plans, plan.id, StatusAfterUndo)
  /\ out' = Printed("undo", FALSE, k, <<>>,
                    IF out.cmd = "apply" /\ out.plan_index = k THEN out.before ELSE None)

\* a run_undo that does not look at the status of the plan
UndoFoundAnyStatus(found, k, dry_run) ==
  IF found = None
  THEN /\ out' = Failed("undo", dry_run, "Plan not found")
       /\ UNCHANGED <<bindings, plans, audit>>
  ELSE IF dry_run
  THEN /\ out' = Printed("undo", TRUE, k, <<>>, None)
       /\ UNCHANGED <<bindings, plans, audit>>
  ELSE UndoCommit(found[1], k,
                  ApplyLoop(ReversedOps(found[1].operations), 0, FALSE,
                            ApplyLoopStart(bindings)))

UndoFound(found, k, dry_run) ==
  IF found = None
  THEN /\ out' = Failed("undo", dry_run, "Plan not found")
       /\ UNCHANGED <<bindings, plans, audit>>
  ELSE IF found[1].status # "applied"
  THEN /\ out' = Failed("undo", dry_run, "Plan has not been applied, cannot undo")
       /\ UNCHANGED <<bindings, plans, audit>>
  ELSE IF dry_run
  THEN /\ out' = Printed("undo", TRUE, k, <<>>, None)
       /\ UNCHANGED <<bindings, plans, audit>>
  ELSE UndoCommit(found[1], k,
                  ApplyLoop(ReversedOps(found[1].operations), 0, FALSE,
                            ApplyLoopStart(bindings)))

\* apply undo <key> [--dry-run]
Undo(key, dry_run) ==
  /\ UNCHANGED <<slots, providers, annotations, now>>
  /\ UndoFound(FindPlan(key), Position(plans, LAMBDA p : p.id = key \/ p.name = key), dry_run)

\* an apply during which the clock advances by elapsed seconds
ApplyTaking(key, auto_rollback, skip_health_check, elapsed) ==
  /\ now' = now + elapsed
  /\ UNCHANGED <<slots, providers, annotations>>
  /\ ApplyFound(FindPlan(key), Position(plans, LAMBDA p : p.id = key \/ p.name = key),
                FALSE, auto_rollback, skip_health_check)

\* an undo during which the clock advances by elapsed seconds
UndoTaking(key, elapsed) ==
  /\ now' = now + elapsed
  /\ UNCHANGED <<slots, providers, annotations>>
  /\ UndoFound(FindPlan(key), Position(plans, LAMBDA p : p.id = key \/ p.name = key), FALSE)

\* ------------------------------------------------- applies run side by side
Procs == 1..NumApplies

\* no apply process is between its load and its save
NoProcess == running = [p \in Procs |-> None]

\* run_apply from the audit entry to the save, on the stores l the process
\* loaded: the save writes the stores of the process over the documents
LoadedCommit(p, l, fw, rb) ==
  LET result == ResultOf(fw, l.auto_rollback, rb)
      health == HealthOf(l.skip_health_check, result, rb.bindings)
  IN  /\ bindings' = rb.bindings
      /\ audit' = Append(l.audit, ApplyEntry(l.plan, fw, l.auto_rollback, rb, result, health))
      /\ plans' = UpdateFirstPlan(l.plans, l.plan.id,
                                  LAMBDA x : StatusAfterApply(x, result, now'))
      /\ out' = Printed("apply", FALSE, l.plan_index, rb.executed,
                        IF result = "success" THEN Some(Triples(l.bindings)) ELSE None)
      /\ running' = [running EXCEPT ![p] = None]

LoadedForward(p, l, fw) == LoadedCommit(p, l, fw, RollbackOf(l.plan, fw, l.auto_rollback))

\* run_apply, lines 42-71: process p loads the stores and looks its plan up
ApplyLoad(p, key, dry_run, auto_rollback, skip_health_check) ==
  /\ running[p] = None
  /\ UNCHANGED <<slots, providers, bindings, annotations, plans, audit, now>>
  /\ IF FindPlan(key) = None
     THEN out' = Failed("apply", dry_run, "Plan not found") /\ UNCHANGED running
     ELSE IF FindPlan(key)[1].status = "applied"
     THEN out' = Failed("apply", dry_run, "Plan has already been applied")
          /\ UNCHANGED running
     ELSE IF dry_run
     THEN out' = Printed("apply", TRUE,
                         Position(plans, LAMBDA x : x.id = key \/ x.name = key), <<>>, None)
          /\ UNCHANGED running
     ELSE /\ running' = [running EXCEPT ![p] =
               Some([bindings |-> bindings, plans |-> plans, audit |-> audit,
                     plan |-> FindPlan(key)[1],
                     plan_index |-> Position(plans, LAMBDA x : x.id = key \/ x.name = key),
                     auto_rollback |-> auto_rollback,
                     skip_health_check |-> skip_health_check])]
          /\ out' = out

\* run_apply, lines 73-175: process p executes its plan on the stores it
\* loaded and saves them
ApplySave(p) ==
  /\ running[p] # None
  /\ UNCHANGED <<slots, providers, annotations, now>>
  /\ LoadedForward(p, running[p][1],
                   ApplyLoop(running[p][1].plan.operations, 0, running[p][1].auto_rollback,
                             ApplyLoopStart(running[p][1].bindings)))

\* plan create --scenario <scenario> [--name <name>]
PlanCreate(scenario, name) ==
  LET found == Find(ScenarioStore, LAMBDA sc : sc.id = scenario \/ sc.name = scenario)
  IN  /\ UNCHANGED <<slots, providers, bindings, annotations, audit, now>>
      /\ IF found = None
         THEN /\ out' = Other
              /\ UNCHANGED plans
         ELSE LET operations == GeneratePlanOperations
                  plan == [id |-> PlanGenerateId(found[1].id, now),
                           name |-> IF name = None THEN "Plan for " \o found[1].name
                                    ELSE name[1],
                           scenario_id |-> found[1].id,
                           operations |-> operations,
                           overall_risk |-> CalculateOverallRisk(operations),
                           status |-> "ready",
                           applied_at |-> None,
                           rollback_plan_id |-> None]
              IN  /\ plans' = Append(plans, plan)
                  /\ out' = Other

\* the number of "rollback:" segments of a plan id
RECURSIVE Nesting(_)
Nesting(plan_id) ==
  IF Len(plan_id) >= 14 /\ SubSeq(plan_id, 1, 14) = "plan:rollback:"
  THEN 1 + Nesting("plan:" \o SubSeq(plan_id, 15, Len(plan_id)))
  ELSE 0

\* plan rollback <key>
PlanRollback(key) ==
  /\ UNCHANGED <<slots, providers, bindings, annotations, audit, now>>
  /\ IF FindPlan(key) = None
     THEN /\ out' = Other
          /\ UNCHANGED plans
     ELSE /\ plans' = Append(plans, GenerateRollback(FindPlan(key)[1]))
          /\ out' = Other

\* plan delete <key>
PlanDelete(key) ==
  LET k == Position(plans, LAMBDA p : p.id = key \/ p.name = key)
  IN  /\ UNCHANGED <<slots, providers, bindings, annotations, audit, now>>
      /\ IF k = 0
         THEN /\ out' = Other
              /\ UNCHANGED plans
         ELSE /\ plans' = RemoveAt(plans, k)
              /\ out' = Other

\* a bind that does not ask the compatibility oracle
BindUnchecked(consumer, slot_id, provider_id) ==
  LET repo     == Find(Repos, LAMBDA r : r.name = consumer \/ r.id = consumer)
      provider == Find(providers, LAMBDA p : p.id = provider_id)
  IN  /\ UNCHANGED <<slots, providers, annotations, plans, audit, now>>
      /\ IF repo = None \/ provider = None \/ ~AnyOf(slots, LAMBDA s : s.id = slot_id)
         THEN out' = Other /\ UNCHANGED bindings
         ELSE IF provider[1].slot_id # slot_id
         THEN out' = Other /\ UNCHANGED bindings
         ELSE LET binding_id == BindingGenerateId(repo[1].id, slot_id)
                  kept == SelectSeq(bindings, LAMBDA b : b.id # binding_id)
              IN  /\ bindings' = Append(kept,
                       [id |-> binding_id, consumer_id |-> repo[1].id, slot_id |-> slot_id,
                        provider_id |-> provider_id, mode |-> "manual", created_by |-> "user"])
                  /\ out' = Other

\* binding bind --consumer <consumer> --slot <slot> --provider <provider id>
Bind(consumer, slot_id, provider_id) ==
  LET repo     == Find(Repos, LAMBDA r : r.name = consumer \/ r.id = consumer)
      provider == Find(providers, LAMBDA p : p.id = provider_id)
      compat   == CheckCompatibility(slot_id, provider_id)
  IN  /\ UNCHANGED <<slots, providers, annotations, plans, audit, now>>
      /\ IF repo = None
         THEN out' = Other /\ UNCHANGED bindings
         ELSE IF ~AnyOf(slots, LAMBDA s : s.id = slot_id)
         THEN out' = Other /\ UNCHANGED bindings
         ELSE IF provider = None
         THEN out' = Other /\ UNCHANGED bindings
         ELSE IF provider[1].slot_id # slot_id
         THEN out' = Other /\ UNCHANGED bindings
         ELSE IF ~compat.compatible
         THEN out' = Other /\ UNCHANGED bindings
         ELSE LET binding_id == BindingGenerateId(repo[1].id, slot_id)
                  kept == SelectSeq(bindings, LAMBDA b : b.id # binding_id)
              IN  /\ bindings' = Append(kept,
                       [id |-> binding_id, consumer_id |-> repo[1].id, slot_id |-> slot_id,
                        provider_id |-> provider_id, mode |-> "manual", created_by |-> "user"])
                  /\ out' = Other

\* binding unbind --consumer <consumer> --slot <slot>
Unbind(consumer, slot_id) ==
  LET repo == Find(Repos, LAMBDA r : r.name = consumer \/ r.id = consumer)
  IN  /\ UNCHANGED <<slots, providers, annotations, plans, audit, now>>
      /\ IF repo = None
         THEN out' = Other /\ UNCHANGED bindings
         ELSE /\ bindings' = SelectSeq(bindings,
                                LAMBDA b : b.id # BindingGenerateId(repo[1].id, slot_id))
              /\ out' = Other

\* slot create <name> --category <category> [--version <v>] [--capabilities <c>]
SlotCreate(name, category, version, capabilities) ==
  LET slot_id == SlotGenerateId(category, name)
  IN  /\ UNCHANGED <<providers, bindings, annotations, plans, audit, now>>
      /\ IF AnyOf(slots, LAMBDA s : s.id = slot_id)
         THEN out' = Other /\ UNCHANGED slots
         ELSE /\ slots' = Append(slots, [id |-> slot_id, name |-> name,
                                         interface_version |-> version,
                                         required_capabilities |-> capabilities])
              /\ out' = Other

\* slot delete <name or id>: refused while a provider is for the slot
SlotDelete(name) ==
  LET named   == Find(slots, LAMBDA s : s.name = name)
      slot_id == IF StartsWith(name, "slot:") THEN Some(name)
                 ELSE IF named = None THEN None ELSE Some(named[1].id)
  IN  /\ UNCHANGED <<providers, bindings, annotations, plans, audit, now>>
      /\ IF slot_id = None
         THEN out' = Other /\ UNCHANGED slots
         ELSE IF AnyOf(providers, LAMBDA p : p.slot_id = slot_id[1])
         THEN out' = Other /\ UNCHANGED slots
         ELSE /\ slots' = SelectSeq(slots, LAMBDA s : s.id # slot_id[1])
              /\ out' = Other

\* provider create <name> --slot <slot> ..., with the attributes of rec
ProviderCreate(rec) ==
  LET provider_id == ProviderGenerateId(rec.slot_id, rec.name)
  IN  /\ UNCHANGED <<slots, bindings, annotations, plans, audit, now>>
      /\ IF ~AnyOf(slots, LAMBDA s : s.id = rec.slot_id)
         THEN out' = Other /\ UNCHANGED providers
         ELSE IF AnyOf(providers, LAMBDA p : p.id = provider_id)
         THEN out' = Other
              /\ UNCHANGED providers
         ELSE /\ providers' = Append(providers, [rec EXCEPT !.id = provider_id])
              /\ out' = Other

\* provider delete <provider id>
ProviderDelete(provider_id) ==
  /\ UNCHANGED <<slots, bindings, annotations, plans, audit, now>>
  /\ IF AnyOf(bindings, LAMBDA b : b.provider_id = provider_id)
     THEN out' = Other
          /\ UNCHANGED providers
     ELSE providers' = SelectSeq(providers, LAMBDA p : p.id # provider_id)
          /\ out' = Other

\* a second passes on the wall clock
Tick ==
  /\ now' = now + 1
  /\ UNCHANGED <<slots, providers, bindings, annotations, plans, audit, out>>
  /\ UNCHANGED <<running, graphVars, env>>

\* ------------------------------------------------------------ graph engine
\* Repos, edges and groups a client or a command line can give.  ra2 is ra
\* with another default branch; e1 runs from ra to rb; g1 holds ra.  No
\* local path is known for them.
RA == [id |-> "repo:gh:t/a", name |-> "a", default_branch |-> "main", local_path |-> <<>>]

RA2 == [RA EXCEPT !.default_branch = "dev"]

RB == [id |-> "repo:gh:t/b", name |-> "b", default_branch |-> "main", local_path |-> <<>>]

\* scan_repo: the repo the scanner makes of the checkout at /w/l
RL == [id |-> "repo:gh:t/l", name |-> "l", default_branch |-> "main",
       local_path |-> <<"/w/l">>]

RepoUniverse == {RA, RA2, RB}

E1 == [id |-> "edge:1", from |-> RA.id, to |-> RB.id, label |-> None]

E1b == [E1 EXCEPT !.label = Some("dep")]

EdgeUniverse == {E1, E1b}

G1 == [id |-> "group:g", name |-> "g", members |-> <<RA.id>>]

G1b == [G1 EXCEPT !.members = <<RB.id, RA.id>>]

GroupUniverse == {G1, G1b}

\* Aspect::defaults: the ten built-in aspect definitions
AspectDef(id, name) == [id |-> id, name |-> name]

AspectDefaults ==
  <<AspectDef("aspect:security", "Security"),
    AspectDef("aspect:reliability", "Reliability"),
    AspectDef("aspect:maintainability", "Maintainability"),
    AspectDef("aspect:portability", "Portability"),
    AspectDef("aspect:performance", "Performance"),
    AspectDef("aspect:observability", "Observability"),
    AspectDef("aspect:ux", "UX"),
    AspectDef("aspect:docs", "Docs"),
    AspectDef("aspect:supply-chain", "Supply Chain"),
    AspectDef("aspect:automation", "Automation")>>

\* AspectStore::default
AspectStoreDefault == [aspects |-> AspectDefaults, annotations |-> <<>>]

\* EcosystemGraph::new.  node_indices is the set of its (key, value) pairs;
\* a NodeIndex is the 0-based position of the node in the petgraph.
NewGraph ==
  [nodes |-> <<>>, arcs |-> <<>>, node_indices |-> {},
   store |-> [repos |-> <<>>, edges |-> <<>>, groups |-> <<>>],
   aspects |-> AspectStoreDefault]

\* HashMap::contains_key and HashMap::get
ContainsKey(m, k) == \E x \in m : x[1] = k

Get(m, k) == (CHOOSE x \in m : x[1] = k)[2]

\* HashMap::insert
Insert(m, k, v) == {x \in m : x[1] # k} \cup {<<k, v>>}

\* rebuild_graph on the graph that load has made of the two stores: a node
\* per repo, the index of an id being that of its last node, and an arc per
\* edge of which both endpoints are in the index
RebuildGraph(store, aspects) ==
  LET nodes == [i \in 1..Len(store.repos) |-> store.repos[i].id]
      index == {<<nodes[i], i - 1>> : i \in {j \in 1..Len(nodes) :
                                              \A k \in (j + 1)..Len(nodes) : nodes[k] # nodes[j]}}
      linked == SelectSeq(store.edges,
                          LAMBDA e : ContainsKey(index, e.from) /\ ContainsKey(index, e.to))
  IN  [nodes |-> nodes,
       arcs |-> [i \in 1..Len(linked) |->
                   <<Get(index, linked[i].from), Get(index, linked[i].to), linked[i].id>>],
       node_indices |-> index,
       store |-> store,
       aspects |-> aspects]

\* an add_repo that pushes the repo whether or not its id is known
AddRepoPushing(g, repo) ==
  [g EXCEPT !.nodes = Append(g.nodes, repo.id),
            !.node_indices = Insert(g.node_indices, repo.id, Len(g.nodes)),
            !.store.repos = Append(g.store.repos, repo)]

\* add_repo
AddRepoTo(g, repo) ==
  IF ContainsKey(g.node_indices, repo.id)
  THEN LET k == Position(g.store.repos, LAMBDA r : r.id = repo.id)
       IN  [g EXCEPT !.store.repos =
              [i \in 1..Len(g.store.repos) |-> IF i = k THEN repo ELSE g.store.repos[i]]]
  ELSE [g EXCEPT !.nodes = Append(g.nodes, repo.id),
                 !.node_indices = Insert(g.node_indices, repo.id, Len(g.nodes)),
                 !.store.repos = Append(g.store.repos, repo)]

\* an add_edge that does not look its endpoints up
AddEdgeUnchecked(g, edge) ==
  IF AnyOf(g.store.edges, LAMBDA e : e.id = edge.id)
  THEN [ok |-> TRUE, graph |-> g]
  ELSE [ok |-> TRUE, graph |-> [g EXCEPT !.store.edges = Append(g.store.edges, edge)]]

\* an add_edge that stores the edge before it looks its endpoints up
AddEdgeStoringFirst(g, edge) ==
  IF ~ContainsKey(g.node_indices, edge.from) \/ ~ContainsKey(g.node_indices, edge.to)
  THEN [ok |-> FALSE, graph |-> [g EXCEPT !.store.edges = Append(g.store.edges, edge)]]
  ELSE [ok |-> TRUE, graph |-> [g EXCEPT !.store.edges = Append(g.store.edges, edge)]]

\* add_edge: a Result and the graph it leaves
AddEdgeTo(g, edge) ==
  IF ~ContainsKey(g.node_indices, edge.from) THEN [ok |-> FALSE, graph |-> g]
  ELSE IF ~ContainsKey(g.node_indices, edge.to) THEN [ok |-> FALSE, graph |-> g]
  ELSE IF AnyOf(g.store.edges, LAMBDA e : e.id = edge.id) THEN [ok |-> TRUE, graph |-> g]
  ELSE [ok |-> TRUE,
        graph |-> [g EXCEPT !.arcs = Append(g.arcs, <<Get(g.node_indices, edge.from),
                                                      Get(g.node_indices, edge.to), edge.id>>),
                            !.store.edges = Append(g.store.edges, edge)]]

\* add_group
AddGroupTo(g, group) ==
  IF AnyOf(g.store.groups, LAMBDA x : x.id = group.id)
  THEN LET k == Position(g.store.groups, LAMBDA x : x.id = group.id)
       IN  [g EXCEPT !.store.groups =
              [i \in 1..Len(g.store.groups) |-> IF i = k THEN group ELSE g.store.groups[i]]]
  ELSE [g EXCEPT !.store.groups = Append(g.store.groups, group)]

\* get_repo
GetRepo(g, id) == Find(g.store.repos, LAMBDA r : r.id = id)

\* ---------------------------------------------------------------- documents
\* The text of a document, as the sequence of its tokens: the opening brace,
\* one token per entry, the closing brace.  A text that was not written to
\* its end lacks its closing brace and does not parse.
Token(t, v) == [t |-> t, v |-> v]

Open == Token("{", [id |-> "{"])

Close == Token("}", [id |-> "}"])

Entries(t, s) == [i \in 1..Len(s) |-> Token(t, s[i])]

EntriesOf(t, text) ==
  LET sel == SelectSeq(text, LAMBDA x : x.t = t)
  IN  [i \in 1..Len(sel) |-> sel[i].v]

\* Serialize for Repo: local_path is #[serde(skip)]
SerializeRepo(r) == [id |-> r.id, name |-> r.name, default_branch |-> r.default_branch]

\* Deserialize for Repo: a skipped field takes its default
DeserializeRepo(v) ==
  [id |-> v.id, name |-> v.name, default_branch |-> v.default_branch, local_path |-> None]

\* serde_json::to_string_pretty(&self.store)
SerializeStore(store) ==
  <<Open>> \o Entries("repo", [i \in 1..Len(store.repos) |-> SerializeRepo(store.repos[i])])
           \o Entries("edge", store.edges)
           \o Entries("group", store.groups) \o <<Close>>

\* serde_json::to_string_pretty(&self.aspects)
SerializeAspects(a) ==
  <<Open>> \o Entries("aspect", a.aspects) \o Entries("annotation", a.annotations)
           \o <<Close>>

\* serde_json::from_str: the text is a document from its opening brace to
\* its closing brace
Parses(text) ==
  /\ Len(text) >= 2
  /\ text[1] = Open
  /\ text[Len(text)] = Close
  /\ \A i \in 2..(Len(text) - 1) : text[i].t \notin {"{", "}"}

ParseStore(text) ==
  [repos |-> [i \in 1..Len(EntriesOf("repo", text)) |->
                DeserializeRepo(EntriesOf("repo", text)[i])],
   edges |-> EntriesOf("edge", text),
   groups |-> EntriesOf("group", text)]

\* serde_json::from_str::<AspectStore>: both fields are #[serde(default)]
ParseAspects(text) ==
  [aspects |-> EntriesOf("aspect", text), annotations |-> EntriesOf("annotation", text)]

\* no document in the data directory
NoFiles == [graph |-> None, aspects |-> None]

\* EcosystemGraph::load: an Option, None for "Failed to parse"; a document
\* that does not exist loads as the default store
LoadFrom(fs) ==
  IF fs.graph # None /\ ~Parses(fs.graph[1]) THEN None
  ELSE IF fs.aspects # None /\ ~Parses(fs.aspects[1]) THEN None
  ELSE Some(RebuildGraph(IF fs.graph = None THEN NewGraph.store
                         ELSE ParseStore(fs.graph[1]),
                         IF fs.aspects = None THEN AspectStoreDefault
                         ELSE ParseAspects(fs.aspects[1])))

\* EcosystemGraph::save, run with no other process in between
SavedFiles(g) ==
  [graph |-> Some(SerializeStore(g.store)), aspects |-> Some(SerializeAspects(g.aspects))]

Called(op, ok) == [op |-> op, ok |-> ok]

\* no save under way
NotSaving == [doc |-> "none", text |-> <<>>]

\* the variables of the slot, plan and audit stores and of their commands
commandVars == <<slots, providers, bindings, annotations, plans, audit, now, out, running>>

\* a client of the library calls add_repo, add_edge, add_group, save, load
AddRepo(repo) ==
  /\ graph' = AddRepoTo(graph, repo)
  /\ ret' = Called("add_repo", TRUE)
  /\ UNCHANGED <<files, saving, read, commandVars, env>>

AddEdge(edge) ==
  /\ graph' = AddEdgeTo(graph, edge).graph
  /\ ret' = Called("add_edge", AddEdgeTo(graph, edge).ok)
  /\ UNCHANGED <<files, saving, read, commandVars, env>>

AddGroup(group) ==
  /\ graph' = AddGroupTo(graph, group)
  /\ ret' = Called("add_group", TRUE)
  /\ UNCHANGED <<files, saving, read, commandVars, env>>

Save ==
  /\ files' = SavedFiles(graph)
  /\ ret' = Called("save", TRUE)
  /\ UNCHANGED <<graph, saving, read, commandVars, env>>

Load ==
  /\ IF LoadFrom(files) = None
     THEN ret' = Called("load", FALSE) /\ UNCHANGED graph
     ELSE ret' = Called("load", TRUE) /\ graph' = LoadFrom(files)[1]
  /\ UNCHANGED <<files, saving, read, commandVars, env>>

\* ----------------------------------------------- edge and group commands
\* str::contains
Contains(s, sub) ==
  \E i \in 1..(Len(s) - Len(sub) + 1) : SubSeq(s, i, i + Len(sub) - 1) = sub

\* resolve_repo_id of edge.rs: an Option; a name matches the repos whose
\* name holds it
ResolveRepoIdByPart(g, name_or_id) ==
  IF StartsWith(name_or_id, "repo:")
  THEN IF GetRepo(g, name_or_id) # None THEN Some(name_or_id) ELSE None
  ELSE LET matches == SelectSeq(g.store.repos, LAMBDA r : Contains(r.name, name_or_id))
       IN  IF Len(matches) = 1 THEN Some(matches[1].id) ELSE None

\* resolve_repo_id of group.rs: an Option; a name matches the repos of that
\* name
ResolveRepoId(g, name_or_id) ==
  IF StartsWith(name_or_id, "repo:")
  THEN IF GetRepo(g, name_or_id) # None THEN Some(name_or_id) ELSE None
  ELSE LET matches == SelectSeq(g.store.repos, LAMBDA r : r.name = name_or_id)
       IN  IF Len(matches) = 1 THEN Some(matches[1].id) ELSE None

\* Edge::generate_id, a hash of its arguments: an id per key
EdgeGenerateId(from, to, rel, channel, label) ==
  "edge:" \o from \o ">" \o to \o ":" \o rel \o ":" \o channel
          \o (IF label = None THEN "" ELSE ":" \o label[1])

Alphanumeric == LowerCase \o UpperCase \o "0123456789"

RECURSIVE Dashed(_)
Dashed(s) ==
  IF s = "" THEN ""
  ELSE (IF Contains(Alphanumeric, SubSeq(s, 1, 1)) THEN SubSeq(s, 1, 1) ELSE "-")
       \o Dashed(SubSeq(s, 2, Len(s)))

\* str::trim_matches('-')
RECURSIVE TrimDashes(_)
TrimDashes(s) ==
  IF s # "" /\ SubSeq(s, 1, 1) = "-" THEN TrimDashes(SubSeq(s, 2, Len(s)))
  ELSE IF s # "" /\ SubSeq(s, Len(s), Len(s)) = "-" THEN TrimDashes(SubSeq(s, 1, Len(s) - 1))
  ELSE s

\* slug of group.rs
Slug(name) == TrimDashes(Dashed(ToLowercase(name)))

\* the command saves the graph it loaded and changed
Saved(g) == files' = SavedFiles(g) /\ ret' = Called("command", TRUE)

\* the command returns an error, or finds nothing to change, and saves nothing
NotSaved == files' = files /\ ret' = Called("command", FALSE)

\* a command on the graph it has loaded; it saves nothing when the load fails
WithGraph(loaded, Run(_)) == IF loaded = None THEN NotSaved ELSE Run(loaded[1])

\* edge add --from <from> --to <to> [--label <label>]
EdgeAdd(from, to, label) ==
  /\ UNCHANGED <<graph, saving, read, commandVars, env>>
  /\ WithGraph(LoadFrom(files), LAMBDA g :
       LET from_id == ResolveRepoIdByPart(g, from)
           to_id   == ResolveRepoIdByPart(g, to)
       IN  IF from_id = None \/ to_id = None THEN NotSaved
           ELSE LET edge == [id |-> EdgeGenerateId(from_id[1], to_id[1], "uses",
                                                   "unknown", label),
                             from |-> from_id[1], to |-> to_id[1], label |-> label]
                IN  IF AddEdgeTo(g, edge).ok THEN Saved(AddEdgeTo(g, edge).graph)
                    ELSE NotSaved)

\* edge remove --from <from> --to <to>
EdgeRemove(from, to) ==
  /\ UNCHANGED <<graph, saving, read, commandVars, env>>
  /\ WithGraph(LoadFrom(files), LAMBDA g :
       LET from_id == ResolveRepoIdByPart(g, from)
           to_id   == ResolveRepoIdByPart(g, to)
       IN  IF from_id = None \/ to_id = None THEN NotSaved
           ELSE LET kept == SelectSeq(g.store.edges,
                              LAMBDA e : ~(e.from = from_id[1] /\ e.to = to_id[1]))
                IN  IF Len(kept) < Len(g.store.edges)
                    THEN Saved([g EXCEPT !.store.edges = kept])
                    ELSE NotSaved)

\* the ids the repos of a command line resolve to
AllResolved(g, repos) == \A i \in 1..Len(repos) : ResolveRepoId(g, repos[i]) # None

ResolvedIds(g, repos) == [i \in 1..Len(repos) |-> ResolveRepoId(g, repos[i])[1]]

\* group create <name> [repos]
GroupCreate(name, repos) ==
  /\ UNCHANGED <<graph, saving, read, commandVars, env>>
  /\ WithGraph(LoadFrom(files), LAMBDA g :
       IF ~AllResolved(g, repos) THEN NotSaved
       ELSE Saved(AddGroupTo(g, [id |-> "group:" \o Slug(name), name |-> name,
                                 members |-> ResolvedIds(g, repos)])))

\* the members after pushing each id that is not a member yet
RECURSIVE PushNew(_, _)
PushNew(members, ids) ==
  IF ids = <<>> THEN members
  ELSE PushNew(IF \E i \in 1..Len(members) : members[i] = Head(ids)
               THEN members ELSE Append(members, Head(ids)),
               Tail(ids))

\* group add <name> <repos>
GroupAdd(name, repos) ==
  /\ UNCHANGED <<graph, saving, read, commandVars, env>>
  /\ WithGraph(LoadFrom(files), LAMBDA g :
       LET k == Position(g.store.groups,
                         LAMBDA x : x.id = "group:" \o Slug(name) \/ x.name = name)
       IN  IF ~AllResolved(g, repos) \/ k = 0 THEN NotSaved
           ELSE Saved([g EXCEPT !.store.groups[k].members =
                                  PushNew(@, ResolvedIds(g, repos))]))

\* group remove <name> <repos>
GroupRemove(name, repos) ==
  /\ UNCHANGED <<graph, saving, read, commandVars, env>>
  /\ WithGraph(LoadFrom(files), LAMBDA g :
       LET k == Position(g.store.groups,
                         LAMBDA x : x.id = "group:" \o Slug(name) \/ x.name = name)
       IN  IF ~AllResolved(g, repos) \/ k = 0 THEN NotSaved
           ELSE Saved([g EXCEPT !.store.groups[k].members =
                         SelectSeq(@, LAMBDA m : \A i \in 1..Len(repos) :
                                                   m # ResolveRepoId(g, repos[i])[1])]))

\* group delete <name>
GroupDelete(name) ==
  /\ UNCHANGED <<graph, saving, read, commandVars, env>>
  /\ WithGraph(LoadFrom(files), LAMBDA g :
       LET kept == SelectSeq(g.store.groups,
                             LAMBDA x : x.id # "group:" \o Slug(name) /\ x.name # name)
       IN  IF Len(kept) < Len(g.store.groups)
           THEN Saved([g EXCEPT !.store.groups = kept])
           ELSE NotSaved)

\* -------------------------------------------------------- aspect commands
\* resolve_target of aspect.rs: an Option; a full id is taken as it is
ResolveTarget(g, target) ==
  IF StartsWith(target, "repo:") \/ StartsWith(target, "edge:") THEN Some(target)
  ELSE LET matches == SelectSeq(g.store.repos, LAMBDA r : r.name = target)
       IN  IF Len(matches) = 1 THEN Some(matches[1].id) ELSE None

\* generate_annotation_id, a hash of the two strings one after the other: an
\* id per concatenation
GenerateAnnotationId(target, aspect_id) == "aa:" \o target \o aspect_id

\* the polarity of --polarity: an Option, None for "Unknown polarity"
ParsePolarity(polarity) ==
  LET p == IF polarity = None THEN "neutral" ELSE polarity[1]
  IN  IF p \in {"risk", "weakness", "concern"} THEN Some("risk")
      ELSE IF p \in {"strength", "positive"} THEN Some("strength")
      ELSE IF p \in {"neutral", "observation"} THEN Some("neutral")
      ELSE None

\* args.weight.unwrap_or(1).min(3)
ParseWeight(weight) ==
  LET w == IF weight = None THEN 1 ELSE weight[1]
  IN  IF w < 3 THEN w ELSE 3

\* the AspectAnnotation that aspect tag builds
NewAnnotation(target_id, aspect_id, weight, polarity, t) ==
  [id |-> GenerateAnnotationId(target_id, aspect_id),
   target |-> target_id, aspect_id |-> aspect_id,
   weight |-> ParseWeight(weight), polarity |-> ParsePolarity(polarity)[1],
   reason |-> "Manual annotation",
   source |-> [mode |-> "manual", who |-> "user", when |-> t]]

\* an aspect tag that pushes the annotation whether or not the pair has one
TagAnnotationPushing(anns, annotation) == Append(anns, annotation)

\* aspect tag, lines 77-84: the annotation takes the place of the first one
\* of its target and aspect, or is pushed
TagAnnotation(anns, annotation) ==
  LET k == Position(anns, LAMBDA a : a.target = annotation.target
                                     /\ a.aspect_id = annotation.aspect_id)
  IN  IF k # 0 THEN [i \in 1..Len(anns) |-> IF i = k THEN annotation ELSE anns[i]]
      ELSE Append(anns, annotation)

\* aspect tag --target <target> --aspect <aspect> [--weight w] [--polarity p]
AspectTag(target, aspect_name, weight, polarity) ==
  /\ UNCHANGED <<graph, saving, read, commandVars, env>>
  /\ WithGraph(LoadFrom(files), LAMBDA g :
       LET target_id == ResolveTarget(g, target)
           aspect_id == "aspect:" \o ToLowercase(aspect_name)
       IN  IF \/ target_id = None
              \/ ~AnyOf(g.aspects.aspects, LAMBDA a : a.id = aspect_id)
              \/ ParsePolarity(polarity) = None
           THEN NotSaved
           ELSE Saved([g EXCEPT !.aspects.annotations =
                         TagAnnotation(@, NewAnnotation(target_id[1], aspect_id,
                                                        weight, polarity, now))]))

\* aspect remove --target <target> --aspect <aspect>
AspectRemove(target, aspect_name) ==
  /\ UNCHANGED <<graph, saving, read, commandVars, env>>
  /\ WithGraph(LoadFrom(files), LAMBDA g :
       LET target_id == ResolveTarget(g, target)
           aspect_id == "aspect:" \o ToLowercase(aspect_name)
       IN  IF target_id = None THEN NotSaved
           ELSE LET kept == SelectSeq(g.aspects.annotations,
                              LAMBDA a : ~(a.target = target_id[1]
                                           /\ a.aspect_id = aspect_id))
                IN  IF Len(kept) < Len(g.aspects.annotations)
                    THEN Saved([g EXCEPT !.aspects.annotations = kept])
                    ELSE NotSaved)

\* ----------------------------------------------------- compatibility oracle
\* the slots and providers that the oracle is asked about: a slot that
\* declares a version or none and requires no, one or two capabilities; a
\* provider of either slot id that declares one of two versions or none
OracleSlots ==
  {[id |-> SlotId, name |-> "s1", interface_version |-> v, required_capabilities |-> c] :
     v \in {None, Some("v1")}, c \in {{}, {"run"}, {"run", "build"}}}

OracleProviders ==
  {[P1 EXCEPT !.slot_id = s, !.interface_version = v, !.capabilities = c] :
     s \in SlotIds, v \in {None, Some("v1"), Some("v2")},
     c \in {{}, {"run"}, {"run", "build", "push"}}}

\* a client calls SlotStore::check_compatibility
Check(slot_id, provider_id) ==
  /\ out' = [cmd |-> "check", dry_run |-> FALSE, error |-> None,
             slot_id |-> slot_id, provider_id |-> provider_id,
             result |-> CheckCompatibility(slot_id, provider_id)]
  /\ UNCHANGED <<slots, providers, bindings, annotations, plans, audit, now, running,
                 graphVars, env>>

\* --------------------------------------------------------- data directory
\* the user-data directory that ProjectDirs::from("org", "hyperpolymath",
\* "reposystem") gives on the platform
PlatformDataDir == "/home/u/.local/share/reposystem"

\* REPOSYSTEM_DATA_DIR is set: the environment of the commands of the other
\* specifications
DataDirSet ==
  [REPOSYSTEM_DATA_DIR |-> Some("/data"), project_dirs |-> Some(PlatformDataDir),
   current_dir |-> "/w"]

\* the environments of a command: the variable unset, absolute or relative;
\* a platform with or without a user-data directory; a working directory
\* (one that exists, so that current_dir() returns it)
Environments ==
  [REPOSYSTEM_DATA_DIR : {None, Some("/data"), Some("data")},
   project_dirs : {None, Some(PlatformDataDir)},
   current_dir : {"/w", "/w2"}]

\* PathBuf::join
Join(dir, name) == dir \o "/" \o name

\* get_data_dir of slot.rs, and of edge.rs, group.rs, aspect.rs, scan.rs
GetDataDir(e) ==
  IF e.REPOSYSTEM_DATA_DIR # None THEN e.REPOSYSTEM_DATA_DIR[1]
  ELSE IF e.project_dirs # None THEN e.project_dirs[1]
  ELSE Join(e.current_dir, ".reposystem")

\* the data_dir of run in plan.rs and in apply.rs
PlanDataDir(e) ==
  IF e.REPOSYSTEM_DATA_DIR # None THEN e.REPOSYSTEM_DATA_DIR[1] ELSE ".reposystem"

\* the directory that a path names for a process of environment e: a
\* relative path is taken from the working directory
Directory(e, path) == IF StartsWith(path, "/") THEN path ELSE Join(e.current_dir, path)

\* the commands that keep their stores in the data directory
DirCommands == {"slot", "provider", "binding", "plan", "apply", "edge", "group", "aspect"}

DataDirOf(cmd, e) == IF cmd \in {"plan", "apply"} THEN PlanDataDir(e) ELSE GetDataDir(e)

\* a command starts: it selects its data directory
RunCommand(cmd) ==
  /\ out' = [cmd |-> cmd, dry_run |-> FALSE, error |-> None,
             data_dir |-> DataDirOf(cmd, env)]
  /\ UNCHANGED <<slots, providers, bindings, annotations, plans, audit, now, running,
                 graphVars, env>>

\* the shell sets or unsets REPOSYSTEM_DATA_DIR between two commands
SetDataDir(value) ==
  /\ env' = [env EXCEPT !.REPOSYSTEM_DATA_DIR = value]
  /\ env' # env
  /\ UNCHANGED <<commandVars, graphVars>>

\* the shell changes its working directory between two commands
ChangeDir(dir) ==
  /\ env' = [env EXCEPT !.current_dir = dir]
  /\ env' # env
  /\ UNCHANGED <<commandVars, graphVars>>

\* ------------------------------------------------------- save, step by step
\* fs::write(graph.json): File::create leaves the document empty
SaveBegin ==
  /\ saving.doc = "none"
  /\ files' = [files EXCEPT !.graph = Some(<<>>)]
  /\ saving' = [doc |-> "graph", text |-> SerializeStore(graph.store)]
  /\ UNCHANGED <<graph, read, ret, commandVars, env>>

\* write_all: one write call puts the next n tokens of the text into the
\* document
SaveWrite(n) ==
  /\ saving.doc # "none"
  /\ Len(files[saving.doc][1]) < Len(saving.text)
  /\ files' = [files EXCEPT ![saving.doc] =
                 Some(SubSeq(saving.text, 1,
                             IF Len(@[1]) + n > Len(saving.text) THEN Len(saving.text)
                             ELSE Len(@[1]) + n))]
  /\ UNCHANGED <<graph, saving, read, ret, commandVars, env>>

\* fs::write(aspects.json), once graph.json is written
SaveAspects ==
  /\ saving.doc = "graph"
  /\ files.graph = Some(saving.text)
  /\ files' = [files EXCEPT !.aspects = Some(<<>>)]
  /\ saving' = [doc |-> "aspects", text |-> SerializeAspects(graph.aspects)]
  /\ UNCHANGED <<graph, read, ret, commandVars, env>>

\* save returns Ok
SaveEnd ==
  /\ saving.doc = "aspects"
  /\ files.aspects = Some(saving.text)
  /\ saving' = NotSaving
  /\ ret' = Called("save", TRUE)
  /\ UNCHANGED <<graph, files, read, commandVars, env>>

\* the process that saves is killed
SaveInterrupted ==
  /\ saving.doc # "none"
  /\ saving' = NotSaving
  /\ ret' = Called("save", FALSE)
  /\ UNCHANGED <<graph, files, read, commandVars, env>>

\* EcosystemGraph::load in another process: the texts it reads
LoadByReader ==
  /\ read' = files
  /\ UNCHANGED <<graph, files, saving, ret, commandVars, env>>

\* ----------------------------------------------------------- specification
\* an empty graph, and an empty data directory that REPOSYSTEM_DATA_DIR names
NoGraph ==
  /\ graph = NewGraph
  /\ files = NoFiles
  /\ saving = NotSaving
  /\ read = NoFiles
  /\ ret = Called("new", TRUE)
  /\ env = DataDirSet

Init ==
  /\ slots = <<Slot1>>
  /\ providers = ProviderCatalogue
  /\ bindings = <<>>
  /\ annotations = <<>>
  /\ plans = <<>>
  /\ audit = <<>>
  /\ now = 0
  /\ out = Other
  /\ NoProcess
  /\ NoGraph

\* the plan names and ids a command line can give
PlanKeys == {plans[i].id : i \in 1..Len(plans)} \cup {plans[i].name : i \in 1..Len(plans)}
              \cup {"no such plan"}

\* the provider ids a command line can give
BindableIds == ProviderIds \cup {providers[i].id : i \in 1..Len(providers)}

\* the commands, on stores kept within the given bounds
Commands(max_plans, max_audit, max_bindings) ==
  \/ \E key \in PlanKeys, dry_run \in BOOLEAN, auto_rollback \in BOOLEAN,
        skip_health_check \in BOOLEAN :
       /\ Apply(key, dry_run, auto_rollback, skip_health_check)
       /\ Len(audit') <= max_audit
       /\ Len(bindings') <= max_bindings
       /\ UNCHANGED <<running, graphVars, env>>
  \/ \E key \in PlanKeys, dry_run \in BOOLEAN :
       /\ Undo(key, dry_run)
       /\ Len(audit') <= max_audit
       /\ Len(bindings') <= max_bindings
       /\ UNCHANGED <<running, graphVars, env>>
  \/ \E scenario \in {"sc", "none"}, name \in {None} \cup {Some(n) : n \in PlanNames} :
       /\ Len(plans) < max_plans
       /\ PlanCreate(scenario, name)
       /\ UNCHANGED <<running, graphVars, env>>
  \/ \E key \in PlanKeys :
       /\ Len(plans) < max_plans
       /\ PlanRollback(key)
       /\ UNCHANGED <<running, graphVars, env>>
       /\ plans' = plans \/ Nesting(Last(plans').id) <= MaxNesting
  \/ \E key \in PlanKeys : PlanDelete(key) /\ UNCHANGED <<running, graphVars, env>>
  \/ \E c \in Consumers, s \in SlotIds, p \in BindableIds :
       /\ Bind(c, s, p)
       /\ Len(bindings') <= max_bindings
       /\ UNCHANGED <<running, graphVars, env>>
  \/ \E c \in Consumers, s \in SlotIds : Unbind(c, s) /\ UNCHANGED <<running, graphVars, env>>

\* the commands run within one second
Next == Commands(MaxPlans, MaxAudit, MaxBindings)

Spec == Init /\ [][Next]_vars

\* the commands run while the clock advances
NextClock ==
  \/ Commands(ClockMaxPlans, ClockMaxAudit, MaxBindings)
  \/ now < MaxTime /\ Tick

SpecClock == Init /\ [][NextClock]_vars

\* the commands take time: the clock advances while an apply or an undo runs
NextTiming ==
  \/ \E key \in PlanKeys, auto_rollback \in BOOLEAN, skip_health_check \in BOOLEAN,
        elapsed \in 0..(MaxTime - now) :
       /\ ApplyTaking(key, auto_rollback, skip_health_check, elapsed)
       /\ Len(audit') <= ClockMaxAudit
       /\ Len(bindings') <= MaxBindings
       /\ UNCHANGED <<running, graphVars, env>>
  \/ \E key \in PlanKeys, elapsed \in 0..(MaxTime - now) :
       /\ UndoTaking(key, elapsed)
       /\ Len(audit') <= ClockMaxAudit
       /\ Len(bindings') <= MaxBindings
       /\ UNCHANGED <<running, graphVars, env>>
  \/ \E name \in {None} \cup {Some(n) : n \in PlanNames} :
       /\ Len(plans) < ClockMaxPlans
       /\ PlanCreate("sc", name)
       /\ UNCHANGED <<running, graphVars, env>>
  \/ \E key \in PlanKeys : PlanDelete(key) /\ UNCHANGED <<running, graphVars, env>>
  \/ \E c \in Consumers, s \in SlotIds, p \in BindableIds :
       /\ Bind(c, s, p)
       /\ Len(bindings') <= MaxBindings
       /\ UNCHANGED <<running, graphVars, env>>

SpecTiming == Init /\ [][NextTiming]_vars

\* two slots, and two providers of the first
InitSlots ==
  /\ slots = <<Slot1, SlotB>>
  /\ providers = <<P1, PX>>
  /\ bindings = <<>>
  /\ annotations = <<>>
  /\ plans = <<>>
  /\ audit = <<>>
  /\ now = 0
  /\ out = Other
  /\ NoProcess
  /\ NoGraph

\* the commands, and the slots and providers created and deleted
NextSlots ==
  \/ Commands(SlotsMaxPlans, SlotsMaxAudit, SlotsMaxBindings)
  \/ \E s \in {Slot1, SlotB} :
       /\ SlotCreate(s.name, "cat", s.interface_version, s.required_capabilities)
       /\ UNCHANGED <<running, graphVars, env>>
  \/ \E name \in SlotIds \cup {"s1"} : SlotDelete(name) /\ UNCHANGED <<running, graphVars, env>>
  \/ \E rec \in {PX, QX} : ProviderCreate(rec) /\ UNCHANGED <<running, graphVars, env>>
  \/ \E p \in BindableIds : ProviderDelete(p) /\ UNCHANGED <<running, graphVars, env>>

SpecSlots == InitSlots /\ [][NextSlots]_vars

\* one slot, and three providers of which the last is not compatible
InitCompat ==
  /\ slots = <<Slot1>>
  /\ providers = <<P1, P3, P4>>
  /\ bindings = <<>>
  /\ annotations = <<>>
  /\ plans = <<>>
  /\ audit = <<>>
  /\ now = 0
  /\ out = Other
  /\ NoProcess
  /\ NoGraph

NextCompat == Commands(CompatMaxPlans, CompatMaxAudit, MaxBindings)

SpecCompat == InitCompat /\ [][NextCompat]_vars

\* a binding, a plan for it, and apply processes that load and save
NextApplies ==
  \/ \E c \in Consumers, p \in ProviderIds :
       /\ Bind(c, SlotId, p)
       /\ UNCHANGED <<running, graphVars, env>>
  \/ /\ Len(plans) < ClockMaxPlans
     /\ PlanCreate("sc", None)
     /\ UNCHANGED <<running, graphVars, env>>
  \/ \E p \in Procs, key \in PlanKeys, dry_run \in BOOLEAN, auto_rollback \in BOOLEAN :
       /\ ApplyLoad(p, key, dry_run, auto_rollback, FALSE)
       /\ UNCHANGED <<graphVars, env>>
  \/ \E p \in Procs :
       /\ ApplySave(p)
       /\ Len(audit') <= AppliesMaxAudit
       /\ UNCHANGED <<graphVars, env>>

SpecApplies == Init /\ [][NextApplies]_vars

\* the library, and the edge and group commands on the data directory
NextGraph ==
  \/ \E repo \in RepoUniverse : AddRepo(repo)
  \/ \E edge \in EdgeUniverse : AddEdge(edge)
  \/ \E group \in GroupUniverse : AddGroup(group)
  \/ Save
  \/ Load
  \/ \E to \in {"b", "x"} : EdgeAdd("a", to, None)
  \/ EdgeRemove("a", "b")
  \/ \E repos \in {<<>>, <<"a">>, <<"x">>} : GroupCreate("G", repos)
  \/ GroupAdd("g", <<"b">>)
  \/ GroupRemove("g", <<"a">>)
  \/ GroupDelete("G")

SpecGraph == Init /\ [][NextGraph]_vars

\* a client that adds repos and saves, write call by write call, while
\* another process loads
NextSave ==
  \/ \E repo \in {RA, RB} : AddRepo(repo)
  \/ SaveBegin
  \/ \E n \in 1..WriteChunk : SaveWrite(n)
  \/ SaveAspects
  \/ SaveEnd
  \/ SaveInterrupted
  \/ LoadByReader

SpecSave == Init /\ [][NextSave]_vars

\* a document that holds no entry
EmptyDocument == <<Open, Close>>

\* the data directories the aspect commands and a client start from: each
\* document missing, empty, or saved from the stores of a new graph
DataDirs ==
  {[graph |-> g, aspects |-> a] :
     g \in {None, Some(EmptyDocument), Some(SerializeStore(NewGraph.store))},
     a \in {None, Some(EmptyDocument), Some(SerializeAspects(AspectStoreDefault))}}

\* the targets a command line gives: the name of ra, the id of an edge, and
\* the name of no repo
TagTargets == {"a", E1.id, "nobody"}

InitAspects ==
  /\ slots = <<Slot1>>
  /\ providers = ProviderCatalogue
  /\ bindings = <<>>
  /\ annotations = <<>>
  /\ plans = <<>>
  /\ audit = <<>>
  /\ now = 0
  /\ out = Other
  /\ NoProcess
  /\ graph = NewGraph
  /\ files \in DataDirs
  /\ saving = NotSaving
  /\ read = NoFiles
  /\ ret = Called("new", TRUE)
  /\ env = DataDirSet

\* a client that adds a repo and a scanned repo, saves and loads, and the
\* aspect commands on the same data directory
NextAspects ==
  \/ \E repo \in {RA, RL} : AddRepo(repo)
  \/ Save
  \/ Load
  \/ \E target \in TagTargets, aspect_name \in {"Security", "nope"},
        weight \in {None, Some(7)}, polarity \in {None, Some("bad")} :
       AspectTag(target, aspect_name, weight, polarity)
  \/ \E target \in TagTargets : AspectRemove(target, "security")

SpecAspects == InitAspects /\ [][NextAspects]_vars

\* the commands started from a shell, under every environment
InitDirs ==
  /\ slots = <<Slot1>>
  /\ providers = ProviderCatalogue
  /\ bindings = <<>>
  /\ annotations = <<>>
  /\ plans = <<>>
  /\ audit = <<>>
  /\ now = 0
  /\ out = Other
  /\ NoProcess
  /\ graph = NewGraph
  /\ files = NoFiles
  /\ saving = NotSaving
  /\ read = NoFiles
  /\ ret = Called("new", TRUE)
  /\ env \in Environments

NextDirs ==
  \/ \E cmd \in DirCommands : RunCommand(cmd)
  \/ \E value \in {None, Some("/data"), Some("data")} : SetDataDir(value)
  \/ \E dir \in {"/w", "/w2"} : ChangeDir(dir)

SpecDirs == InitDirs /\ [][NextDirs]_vars

\* the oracle, on every slot store of at most one slot and one provider
InitOracle ==
  /\ slots \in {<<>>} \cup {<<s>> : s \in OracleSlots}
  /\ providers \in {<<>>} \cup {<<p>> : p \in OracleProviders}
  /\ bindings = <<>>
  /\ annotations = <<>>
  /\ plans = <<>>
  /\ audit = <<>>
  /\ now = 0
  /\ out = Other
  /\ NoProcess
  /\ NoGraph

NextOracle == \E slot_id \in SlotIds, provider_id \in {P1.id, P2.id} : Check(slot_id, provider_id)

SpecOracle == InitOracle /\ [][NextOracle]_vars

\* ------------------------------------------------- operations, one by one
\* a slot that requires a capability p1 and p2 lack
SlotPush == [Slot1 EXCEPT !.required_capabilities = {"run", "push"}]

\* the bindings an operation can find in the store: the one binding bind
\* makes for c1, two that an apply has made, and one of another consumer
OpsBindings ==
  {[id |-> BindingGenerateId("repo:local:c1", SlotId), consumer_id |-> "repo:local:c1",
    slot_id |-> SlotId, provider_id |-> P1.id, mode |-> "manual", created_by |-> "user"],
   NewBinding(SlotId, "repo:local:c1", P3.id),
   NewBinding(SlotId, "repo:local:c2", P1.id)}

\* the operations a plan of the plan store can hold
SwitchOps ==
  {[op |-> "switch_binding", binding_id |-> b, consumer_id |-> "repo:local:c1",
    slot_id |-> s, from_provider_id |-> P1.id, to_provider_id |-> p] :
     b \in {BindingGenerateId("repo:local:c1", SlotId), "binding:none"},
     s \in SlotIds, p \in {P1.id, P2.id, P4.id, "provider:none"}}

CreateOps ==
  {[op |-> "create_binding", consumer_id |-> c, slot_id |-> s, provider_id |-> p] :
     c \in {"repo:local:c1", "repo:local:c2"}, s \in SlotIds, p \in {P1.id, P3.id}}

RemoveOps ==
  {[op |-> "remove_binding", binding_id |-> b, consumer_id |-> c, slot_id |-> SlotId,
    provider_id |-> P1.id] :
     b \in {BindingGenerateId("repo:local:c1", SlotId), "binding:none"},
     c \in {"repo:local:c1", "repo:local:c3"}}

FileOps ==
  {[op |-> "file_change", repo_id |-> "repo:local:c1", file_path |-> "Cargo.toml",
    change_type |-> t] : t \in {"create", "modify", "delete"}}

\* execute_operation is called on the loaded bindings; out keeps the
\* operation, its Result and the bindings it was called on
Execute(op) ==
  /\ bindings' = ExecuteOperation(bindings, op).bindings
  /\ out' = [cmd |-> "execute", dry_run |-> FALSE,
             error |-> ExecuteOperation(bindings, op).error,
             op |-> op, before |-> bindings]
  /\ UNCHANGED <<slots, providers, annotations, plans, audit, now, running, graphVars, env>>

InitOps ==
  /\ slots \in {<<Slot1>>, <<SlotPush>>}
  /\ providers = <<P1, P2, P3, P4>>
  /\ bindings \in {<<>>} \cup {<<b>> : b \in OpsBindings}
                       \cup {<<a, b>> : a \in OpsBindings, b \in OpsBindings}
  /\ annotations = <<>>
  /\ plans = <<>>
  /\ audit = <<>>
  /\ now = 0
  /\ out = Other
  /\ NoProcess
  /\ NoGraph

NextOps ==
  \E op \in SwitchOps \cup CreateOps \cup RemoveOps \cup FileOps :
    Execute(op) /\ Len(bindings') <= OpsMaxBindings

SpecOps == InitOps /\ [][NextOps]_vars

\* ------------------------------------------------------- plan derivation
\* a fallback provider of the highest priority
PF == MkProvider("provider:cat.s1:pf", "pf", "local", <<"v1">>, {"run"}, 5, TRUE)

\* the bindings plan create can find: of c1 to p1, to p3 or to a provider
\* that is no longer in the store, and of c2 to p1
DeriveBindings ==
  {[id |-> BindingGenerateId(c, SlotId), consumer_id |-> c, slot_id |-> SlotId,
    provider_id |-> p, mode |-> "manual", created_by |-> "user"] :
     c \in {"repo:local:c1"}, p \in {P1.id, P3.id, "provider:cat.s1:gone"}}
  \cup {[id |-> BindingGenerateId("repo:local:c2", SlotId), consumer_id |-> "repo:local:c2",
         slot_id |-> SlotId, provider_id |-> P1.id, mode |-> "manual",
         created_by |-> "user"]}

InitDerive ==
  /\ slots = <<Slot1>>
  /\ providers \in {<<P1, P2, P3>>, <<P1, P3, P4, PF>>, <<P1, PF>>, <<P3, P1>>}
  /\ bindings \in {<<>>} \cup {<<b>> : b \in DeriveBindings}
                       \cup {<<a, b>> \in DeriveBindings \X DeriveBindings :
                               a.consumer_id # b.consumer_id}
  /\ annotations = <<>>
  /\ plans = <<>>
  /\ audit = <<>>
  /\ now = 0
  /\ out = Other
  /\ NoProcess
  /\ NoGraph

NextDerive ==
  \/ \E scenario \in {"sc", "none"}, name \in {None} \cup {Some(n) : n \in PlanNames} :
       /\ Len(plans) < MaxPlans
       /\ PlanCreate(scenario, name)
       /\ UNCHANGED <<running, graphVars, env>>
  \/ \E key \in PlanKeys : PlanDelete(key) /\ UNCHANGED <<running, graphVars, env>>

SpecDerive == InitDerive /\ [][NextDerive]_vars

\* ------------------------------------------------------------------ claims
\* this step is a run of the command cmd without --dry-run
Invoked(cmd) == now' = now /\ out'.cmd = cmd /\ ~out'.dry_run

\* this step is a run of the command cmd that reached its forward loop
Executed(cmd) == Invoked(cmd) /\ out'.error = None

\* the audit entries written by run_apply
ApplyEntries ==
  {audit[i] : i \in {j \in 1..Len(audit) : SubSeq(audit[j].id, 1, 11) # "audit:undo:"}}

\* C1 as stated: when an operation fails in an apply without auto-rollback
\* (result partial_failure), no later operation is executed: op_results
\* ends with the one failed operation.
C1_HaltsAfterFailure ==
  \A e \in ApplyEntries :
    e.result = "partial_failure" =>
      \A i \in 1..Len(e.op_results) : e.op_results[i].success <=> i < Len(e.op_results)

\* C1 amended: when an operation fails in an apply without auto-rollback,
\* the failure is recorded and every remaining operation is still executed
\* (one op_result per operation of the plan, in order); the result is
\* partial_failure, no rollback is run and the plan is not marked applied.
C1_ContinuesAfterFailure ==
  [][(Executed("apply") /\ Last(audit').result = "partial_failure") =>
       LET e == Last(audit')
           plan == plans[out'.plan_index]
       IN  /\ Len(e.op_results) = Len(plan.operations)
           /\ \A i \in 1..Len(e.op_results) : e.op_results[i].op_index = i - 1
           /\ \E i \in 1..Len(e.op_results) : ~e.op_results[i].success
           /\ ~e.auto_rollback_triggered
           /\ out'.rollback_executed = <<>>
           /\ plans'[out'.plan_index].status # "applied"]_vars

\* an apply without auto-rollback has failed at one operation and executed
\* a later one with success
C1_Witness ==
  /\ out.cmd = "apply" /\ ~out.dry_run /\ out.error = None
  /\ audit # <<>>
  /\ Last(audit).result = "partial_failure"
  /\ \E i, j \in 1..Len(Last(audit).op_results) :
       /\ i < j
       /\ ~Last(audit).op_results[i].success
       /\ Last(audit).op_results[j].success

\* C2 as stated: when the operation at index i fails in an apply with
\* auto-rollback, the compensating operations executed are the reverses of
\* operations 0..i-1, in reverse order; the failed operation is not reversed.
C2_ReversesSucceededOnly ==
  [][(Executed("apply") /\ Last(audit').auto_rollback_triggered) =>
       LET i == Last(Last(audit').op_results).op_index
       IN  out'.rollback_executed
             = ReversedOps(SubSeq(plans[out'.plan_index].operations, 1, i))]_vars

\* C3 as stated: an apply that ends rolled_back leaves the set of
\* (consumer, slot, provider) bindings as it was before the apply.
C3_RolledBackRestoresBindings ==
  [][(Executed("apply") /\ Last(audit').result = "rolled_back") =>
       Triples(bindings') = Triples(bindings)]_vars

\* C4 as stated: after a plan is applied and then undone, the bindings are
\* those of the state before the apply.
C4_UndoRestoresBindings ==
  (out.cmd = "undo" /\ ~out.dry_run /\ out.error = None /\ out.before # None)
    => Triples(bindings) = out.before[1]

\* C5 as stated: every apply without --dry-run appends exactly one audit
\* entry.
C5_EveryApplyAppendsOneEntry ==
  [][Invoked("apply") => Len(audit') = Len(audit) + 1]_vars

\* C5 amended: an apply without --dry-run that finds its plan, not already
\* applied, appends exactly one audit entry whatever the outcome of its
\* operations; an apply refused because the plan is missing or already
\* applied returns its error and writes no entry.
C5_OneEntryPerExecutedApply ==
  [][Invoked("apply") =>
       IF out'.error = None
       THEN /\ Len(audit') = Len(audit) + 1
            /\ SubSeq(audit', 1, Len(audit)) = audit
            /\ Last(audit').plan_id = plans[out'.plan_index].id
       ELSE /\ audit' = audit
            /\ out'.error[1] \in {"Plan not found", "Plan has already been applied"}]_vars

\* an apply whose first operation failed and was rolled back has written
\* its entry
C5_Witness ==
  /\ out.cmd = "apply" /\ ~out.dry_run /\ out.error = None
  /\ Len(audit) = 1
  /\ audit[1].result = "rolled_back"
  /\ ~audit[1].op_results[1].success

\* C6: an apply or undo with --dry-run changes no store and writes no audit
\* entry.
C6_DryRunChangesNothing ==
  [][(now' = now /\ out'.cmd \in {"apply", "undo"} /\ out'.dry_run) =>
       UNCHANGED stores]_vars

\* a dry run of apply has printed a plan that has operations
C6_Witness ==
  /\ out.cmd = "apply" /\ out.dry_run /\ out.error = None
  /\ plans[out.plan_index].operations # <<>>
  /\ plans[out.plan_index].status = "ready"
  /\ audit = <<>>

\* C7 as stated: after an apply the plan is applied with applied_at set if
\* and only if the result is success; otherwise it is draft with applied_at
\* unset.
C7_StatusFollowsResult ==
  [][Executed("apply") =>
       LET plan == plans'[out'.plan_index]
       IN  IF Last(audit').result = "success"
           THEN plan.status = "applied" /\ plan.applied_at # None
           ELSE plan.status = "draft" /\ plan.applied_at = None]_vars

\* C8 as stated: a plan enters status applied only through a successful
\* apply started from status ready.
C8_AppliedOnlyFromReady ==
  [][Len(plans') = Len(plans) =>
       \A i \in 1..Len(plans) :
         (plans[i].status # "applied" /\ plans'[i].status = "applied") =>
           /\ plans[i].status = "ready"
           /\ Executed("apply")
           /\ Last(audit').result = "success"]_vars

\* C9: a plan whose status is applied has the operations (and the id, the
\* name and the rest, but for status and applied_at) it was stored with: it
\* is the plan at the same position before the step, or at the next position
\* when the step deleted a plan.
C9_AppliedPlanKeepsOperations ==
  [][\A i \in 1..Len(plans') :
       plans'[i].status = "applied" =>
         \E j \in {i, i + 1} \cap (1..Len(plans)) :
           /\ plans[j].operations = plans'[i].operations
           /\ [plans[j] EXCEPT !.status = plans'[i].status,
                               !.applied_at = plans'[i].applied_at] = plans'[i]]_vars

\* an undo has run on an applied plan that has operations and has left it
\* applied
C9_Witness ==
  /\ out.cmd = "undo" /\ ~out.dry_run /\ out.error = None
  /\ plans[out.plan_index].status = "applied"
  /\ plans[out.plan_index].operations # <<>>

\* C10: the audit log only grows by appending: the log before a step is a
\* prefix of the log after it.
C10_AuditOnlyAppended ==
  [][IsPrefix(audit, audit')]_vars

\* an undo has appended its entry after the entry of the apply
C10_Witness ==
  /\ Len(audit) = 2
  /\ SubSeq(audit[1].id, 1, 11) # "audit:undo:"
  /\ SubSeq(audit[2].id, 1, 11) = "audit:undo:"

\* the bindings of consumer c to slot s
BindingsOf(b, c, s) == SelectSeq(b, LAMBDA x : x.consumer_id = c /\ x.slot_id = s)

\* C11 as stated: every stored binding references an existing slot, an
\* existing provider and an existing repo, and the slot_id of that provider
\* is the slot_id of the binding.
C11_BindingsReferToStore ==
  \A i \in 1..Len(bindings) :
    /\ AnyOf(slots, LAMBDA s : s.id = bindings[i].slot_id)
    /\ AnyOf(Repos, LAMBDA r : r.id = bindings[i].consumer_id)
    /\ AnyOf(providers, LAMBDA p : p.id = bindings[i].provider_id)
    /\ \A k \in 1..Len(providers) :
         providers[k].id = bindings[i].provider_id
           => providers[k].slot_id = bindings[i].slot_id

\* C12: every persisted binding b has check(b.slot_id, b.provider_id)
\* compatible under the compatibility oracle, after any sequence of bind,
\* apply and undo (and the plan and unbind commands between them).
C12_BindingsCompatible ==
  \A i \in 1..Len(bindings) :
    CheckCompatibility(bindings[i].slot_id, bindings[i].provider_id).compatible

\* an undo has switched the binding back while the store holds a provider
\* that is not compatible with its slot
C12_Witness ==
  /\ out.cmd = "undo" /\ ~out.dry_run /\ out.error = None
  /\ Last(audit).result = "success"
  /\ bindings # <<>>
  /\ bindings[1].created_by = "applier"
  /\ \E k \in 1..Len(providers) :
       ~CheckCompatibility(providers[k].slot_id, providers[k].id).compatible

\* C13 as stated: the slot store holds at most one binding for each
\* (consumer, slot) pair.
C13_OneBindingPerConsumerSlot ==
  \A i, j \in 1..Len(bindings) :
    (bindings[i].consumer_id = bindings[j].consumer_id
       /\ bindings[i].slot_id = bindings[j].slot_id) => i = j

\* C14 as stated: unbind for consumer c and slot s removes the binding of
\* (c, s) however it was created and leaves every other binding unchanged;
\* afterwards no binding for (c, s) remains.
C14_UnbindRemovesBinding ==
  [][\A c \in Consumers, s \in SlotIds :
       Unbind(c, s) =>
         /\ BindingsOf(bindings', c, s) = <<>>
         /\ bindings' = SelectSeq(bindings, LAMBDA x : ~(x.consumer_id = c /\ x.slot_id = s))]_vars

\* C15 as stated: when two apply invocations run at the same time on one
\* data directory, at most one of them proceeds to change the stores: no two
\* apply processes are between their load and their save at once, the other
\* having failed with a lock-contention error.
C15_OneApplyAtATime ==
  \A p, q \in Procs : (running[p] # None /\ running[q] # None) => p = q

\* C16 as stated: a load that runs beside a save, or after an interrupted
\* save, reads of each document either nothing or a complete text, never a
\* partially written one.
C16_LoadReadsWholeDocuments ==
  \A d \in {"graph", "aspects"} : read[d] # None => Parses(read[d][1])

\* every from and to of the edges of a store is the id of a repo of the store
EdgesResolve(store) ==
  \A i \in 1..Len(store.edges) :
    /\ AnyOf(store.repos, LAMBDA r : r.id = store.edges[i].from)
    /\ AnyOf(store.repos, LAMBDA r : r.id = store.edges[i].to)

\* C17: after any sequence of add_repo, add_edge, add_group, load, save and
\* edge and group commands, every stored edge's from and to resolve to an
\* existing repo id, in the graph of the client and in graph.json.
C17_EdgesResolve ==
  /\ EdgesResolve(graph.store)
  /\ files.graph # None => EdgesResolve(ParseStore(files.graph[1]))

\* the client's graph and graph.json hold an edge between two repos
C17_Witness ==
  /\ Len(graph.store.repos) = 2
  /\ graph.store.edges # <<>>
  /\ files.graph # None
  /\ ParseStore(files.graph[1]).edges # <<>>

\* C18: add_edge with a from or to that is not the id of a known repo
\* returns an error and leaves the store, the index and the petgraph as they
\* were.
C18_AddEdgeFailsCleanly ==
  [][\A edge \in EdgeUniverse :
       (/\ AddEdge(edge)
        /\ \/ ~AnyOf(graph.store.repos, LAMBDA r : r.id = edge.from)
           \/ ~AnyOf(graph.store.repos, LAMBDA r : r.id = edge.to))
         => (~ret'.ok /\ graph' = graph /\ files' = files)]_vars

\* add_edge has returned an error on a graph that knows one endpoint only
C18_Witness ==
  /\ ret = Called("add_edge", FALSE)
  /\ Len(graph.store.repos) = 1
  /\ graph.store.repos[1].id = RA.id
  /\ graph.store.edges = <<>>

\* every member of the groups of a store is the id of a repo of the store
MembersResolve(store) ==
  \A i \in 1..Len(store.groups) :
    \A k \in 1..Len(store.groups[i].members) :
      AnyOf(store.repos, LAMBDA r : r.id = store.groups[i].members[k])

\* C19 as stated: after any sequence of add_repo, add_group and group
\* create, add, remove and delete, every member id of every stored group
\* resolves to an existing repo id.
C19_GroupMembersResolve ==
  /\ MembersResolve(graph.store)
  /\ files.graph # None => MembersResolve(ParseStore(files.graph[1]))

\* the entries of s that have the id of e are e alone
Once(s, e) == SelectSeq(s, LAMBDA x : x.id = e.id) = <<e>>

\* C20: add_repo, add_edge and add_group are idempotent: on every graph,
\* adding an entity twice leaves the graph that adding it once leaves, with
\* no error on the second add and one entry of its id; add_repo and
\* add_group replace the entry of the same id.
C20_AddsIdempotent ==
  /\ \A repo \in RepoUniverse :
       /\ AddRepoTo(AddRepoTo(graph, repo), repo) = AddRepoTo(graph, repo)
       /\ Once(AddRepoTo(graph, repo).store.repos, repo)
  /\ \A edge \in EdgeUniverse :
       AddEdgeTo(graph, edge).ok =>
         /\ AddEdgeTo(AddEdgeTo(graph, edge).graph, edge) = AddEdgeTo(graph, edge)
         /\ Len(SelectSeq(AddEdgeTo(graph, edge).graph.store.edges,
                          LAMBDA x : x.id = edge.id)) = 1
  /\ \A group \in GroupUniverse :
       /\ AddGroupTo(AddGroupTo(graph, group), group) = AddGroupTo(graph, group)
       /\ Once(AddGroupTo(graph, group).store.groups, group)

\* the graph holds a repo, an edge and a group under ids that the universe
\* gives to other entries too
C20_Witness ==
  /\ AnyOf(graph.store.repos, LAMBDA r : r = RA)
  /\ AnyOf(graph.store.edges, LAMBDA e : e = E1)
  /\ AnyOf(graph.store.groups, LAMBDA g : g = G1)

\* C29 as stated: every command selects the data directory by the same
\* rule, so under one environment the binding, plan and apply commands
\* read and write the same directory.
C29_OneDataDirectory ==
  \A c, d \in DirCommands :
    Directory(env, DataDirOf(c, env)) = Directory(env, DataDirOf(d, env))

\* C22: check(slot_id, provider_id).compatible is true exactly when the slot
\* and the provider both exist, provider.slot_id equals slot_id, the two
\* interface versions are not both declared and different, and every
\* required capability of the slot is among the provider's capabilities;
\* capabilities_missing is then empty.
C22_CompatibleExactlyWhen ==
  \A slot_id \in SlotIds, provider_id \in {P1.id, P2.id} :
    LET r == CheckCompatibility(slot_id, provider_id)
    IN  /\ r.compatible <=>
             \E i \in 1..Len(slots), k \in 1..Len(providers) :
               /\ slots[i].id = slot_id
               /\ providers[k].id = provider_id
               /\ providers[k].slot_id = slot_id
               /\ ~(/\ slots[i].interface_version # None
                    /\ providers[k].interface_version # None
                    /\ slots[i].interface_version # providers[k].interface_version)
               /\ slots[i].required_capabilities \subseteq providers[k].capabilities
        /\ r.compatible => r.capabilities_missing = {}

\* the oracle has answered compatible for a slot that declares a version
\* and a provider that declares none
C22_Witness ==
  /\ out.cmd = "check"
  /\ out.result.compatible
  /\ slots[1].interface_version # None
  /\ providers[1].interface_version = None
  /\ slots[1].required_capabilities = {"run", "build"}

\* the levels of RiskLevel
RiskLevels == {"low", "medium", "high", "critical"}

\* the greatest of the risks of the operations, low when there is none
MaxRisk(ops) ==
  IF ops = <<>> THEN "low"
  ELSE CHOOSE r \in {ops[i].risk : i \in 1..Len(ops)} :
         \A i \in 1..Len(ops) : RiskRank(ops[i].risk) <= RiskRank(r)

\* the operation lists of at most MaxOps operations, by their risks
RiskLists ==
  UNION {[1..n -> [risk : RiskLevels]] : n \in 0..MaxOps}

\* C23: the overall risk of an operation list is the maximum of the risks
\* of its operations, and low for the empty list; every plan of the plan
\* store has that value as its overall_risk.
C23_OverallRiskIsMax ==
  /\ \A ops \in RiskLists : CalculateOverallRisk(ops) = MaxRisk(ops)
  /\ \A i \in 1..Len(plans) : plans[i].overall_risk = MaxRisk(plans[i].operations)

\* the plan store holds a plan of two operations whose greater risk is not
\* that of the first operation
C23_Witness ==
  \E i \in 1..Len(plans) :
    /\ Len(plans[i].operations) = 2
    /\ RiskRank(plans[i].operations[1].risk) < RiskRank(plans[i].operations[2].risk)
    /\ plans[i].overall_risk = plans[i].operations[2].risk

\* C27: in the audit entry that an apply writes, health_check_passed is
\* present if and only if the result is success and the health check was
\* not skipped; it is absent for rolled_back, partial_failure and failure.
C27_HealthCheckPresence ==
  [][Executed("apply") =>
       \A key \in PlanKeys, auto_rollback \in BOOLEAN, skip_health_check \in BOOLEAN :
         Apply(key, FALSE, auto_rollback, skip_health_check) =>
           (Last(audit').health_check_passed # None
              <=> (Last(audit').result = "success" /\ ~skip_health_check))]_vars

\* a successful apply has recorded the outcome of its health check
C27_Witness ==
  /\ out.cmd = "apply" /\ ~out.dry_run /\ out.error = None
  /\ audit # <<>>
  /\ Last(audit).result = "success"
  /\ Last(audit).health_check_passed = Some(TRUE)

\* every binding of b has its slot and its provider in the stores (an apply
\* changes neither) and passes the oracle
BindingsPassOracle(b) ==
  \A i \in 1..Len(b) :
    /\ AnyOf(slots, LAMBDA s : s.id = b[i].slot_id)
    /\ AnyOf(providers, LAMBDA p : p.id = b[i].provider_id)
    /\ CheckCompatibility(b[i].slot_id, b[i].provider_id).compatible

\* C28 as stated: whenever an apply has run its health check, the result it
\* records is true if and only if, in the stores the apply left, every
\* binding's slot and provider exist and every binding passes the
\* compatibility oracle.
C28_HealthCheckIsOracle ==
  [][(Executed("apply") /\ Len(audit') > Len(audit)
        /\ Last(audit').health_check_passed # None)
       => (Last(audit').health_check_passed = Some(BindingsPassOracle(bindings')))]_vars

\* C26: an undo that is not a dry run either fails and changes no store, or
\* runs on a plan whose status is applied; in the second case it executes
\* every reverse of the plan's operations, last operation first, by the rules
\* of the applier, appends exactly one audit entry whose id starts with
\* audit:undo: and holds those results, and leaves the plan draft with
\* applied_at unset if every reversed operation succeeded, and as it was
\* otherwise.
C26_UndoProtocol ==
  [][Invoked("undo") =>
       IF out'.error # None THEN UNCHANGED stores
       ELSE LET plan == plans[out'.plan_index]
                fw   == ApplyLoop(ReversedOps(plan.operations), 0, FALSE,
                                  ApplyLoopStart(bindings))
                entry == Last(audit')
            IN  /\ plan.status = "applied"
                /\ audit' = Append(audit, entry)
                /\ SubSeq(entry.id, 1, 11) = "audit:undo:"
                /\ entry.plan_id = plan.id
                /\ entry.op_results = fw.op_results
                /\ bindings' = fw.bindings
                /\ Len(plans') = Len(plans)
                /\ \A i \in 1..Len(plans) : i # out'.plan_index => plans'[i] = plans[i]
                /\ IF \A i \in 1..Len(entry.op_results) : entry.op_results[i].success
                   THEN plans'[out'.plan_index] = [plan EXCEPT !.status = "draft",
                                                               !.applied_at = None]
                   ELSE plans'[out'.plan_index] = plan]_vars

\* an undo has reversed the operations of an applied plan, every one with
\* success, and the plan is draft again
C26_Witness ==
  /\ out.cmd = "undo" /\ ~out.dry_run /\ out.error = None
  /\ Last(audit).op_results # <<>>
  /\ \A i \in 1..Len(Last(audit).op_results) : Last(audit).op_results[i].success
  /\ plans[out.plan_index].status = "draft"
  /\ plans[out.plan_index].applied_at = None

\* an undo has met a reversed operation that failed, and the plan is still
\* applied
C26_UndoFailed ==
  /\ out.cmd = "undo" /\ ~out.dry_run /\ out.error = None
  /\ \E i \in 1..Len(Last(audit).op_results) : ~Last(audit).op_results[i].success
  /\ plans[out.plan_index].status = "applied"

\* C30 as stated, for the plan id: Plan::generate_id, called again at any
\* later time for the scenario of a plan that plan create stored, returns
\* the id the plan was stored under.
C30_PlanIdDeterministic ==
  \A i \in 1..Len(plans) :
    Nesting(plans[i].id) = 0 =>
      plans[i].id = PlanGenerateId(plans[i].scenario_id, now)

\* the annotations of the aspects document of a data directory
AnnotationsIn(fs) ==
  IF fs.aspects = None \/ ~Parses(fs.aspects[1]) THEN <<>>
  ELSE ParseAspects(fs.aspects[1]).annotations

SamePair(a, b) == a.target = b.target /\ a.aspect_id = b.aspect_id

\* C21: after every step no two annotations of the aspects document share
\* their (target, aspect_id); an aspect tag that was accepted leaves, for its
\* pair, the annotation it has built, and an aspect remove that removed
\* leaves none for its pair; both leave the annotations of the other pairs
\* as they were.
C21_AnnotationsUnique ==
  [][LET before == AnnotationsIn(files)
         after  == AnnotationsIn(files')
     IN  /\ \A i, j \in 1..Len(after) : SamePair(after[i], after[j]) => i = j
         /\ \A target \in TagTargets, aspect_name \in {"Security", "nope"},
               weight \in {None, Some(7)}, polarity \in {None, Some("bad")} :
              (ret' = Called("command", TRUE)
                 /\ AspectTag(target, aspect_name, weight, polarity)) =>
                LET written == NewAnnotation(ResolveTarget(LoadFrom(files)[1], target)[1],
                                             "aspect:" \o ToLowercase(aspect_name),
                                             weight, polarity, now)
                IN  /\ AnyOf(after, LAMBDA a : a = written)
                    /\ \A i \in 1..Len(before) :
                         ~SamePair(before[i], written)
                           => AnyOf(after, LAMBDA a : a = before[i])
                    /\ \A i \in 1..Len(after) :
                         after[i] # written => AnyOf(before, LAMBDA a : a = after[i])
         /\ \A target \in TagTargets :
              (ret' = Called("command", TRUE) /\ AspectRemove(target, "security")) =>
                LET target_id == ResolveTarget(LoadFrom(files)[1], target)[1]
                    Removed(a) == a.target = target_id /\ a.aspect_id = "aspect:security"
                IN  /\ ~AnyOf(after, Removed)
                    /\ \A i \in 1..Len(before) :
                         ~Removed(before[i]) => AnyOf(after, LAMBDA a : a = before[i])
                    /\ \A i \in 1..Len(after) : AnyOf(before, LAMBDA a : a = after[i])]_vars

\* an aspect command has saved a document that holds the annotations of two
\* targets for the same aspect, one with the default weight and one with the
\* largest
C21_Witness ==
  /\ ret = Called("command", TRUE)
  /\ Len(AnnotationsIn(files)) = 2
  /\ AnnotationsIn(files)[1].aspect_id = AnnotationsIn(files)[2].aspect_id
  /\ AnnotationsIn(files)[1].target = E1.id
  /\ AnnotationsIn(files)[1].weight = 3
  /\ AnnotationsIn(files)[2].target = RA.id
  /\ AnnotationsIn(files)[2].weight = 1

\* C24 as stated: a load of the data directory that holds what save wrote
\* of a graph gives the stores of that graph back, every repo, edge, group,
\* aspect and annotation with every field equal.
C24_RoundTrip ==
  [][(ret' = Called("load", TRUE) /\ files = SavedFiles(graph)) =>
       (graph'.store = graph.store /\ graph'.aspects = graph.aspects)]_vars

\* C25 as stated: after a load of a data directory whose aspects document
\* is missing or holds no aspect definition the graph holds the ten built-in
\* aspect definitions, and a missing document has loaded as an empty
\* collection.
C25_MissingLoadsDefault ==
  ret = Called("load", TRUE) =>
    /\ (files.aspects = None \/ ParseAspects(files.aspects[1]).aspects = <<>>)
         => graph.aspects.aspects = AspectDefaults
    /\ files.aspects = None => graph.aspects.annotations = <<>>
    /\ files.graph = None => graph.store = NewGraph.store

\* C31: in every audit entry that an apply or an undo has written,
\* finished_at is not before started_at
C31_FinishedNotBeforeStarted ==
  \A i \in 1..Len(audit) : audit[i].finished_at >= audit[i].started_at

\* an apply has written an entry, and an undo one while the clock advanced
C31_Witness ==
  /\ \E i \in 1..Len(audit) : /\ StartsWith(audit[i].id, "audit:undo:")
                                /\ audit[i].finished_at > audit[i].started_at
  /\ \E i \in 1..Len(audit) : ~StartsWith(audit[i].id, "audit:undo:")

\* an apply has written an entry while the clock advanced
C31_ApplyTookTime ==
  \E i \in 1..Len(audit) : /\ ~StartsWith(audit[i].id, "audit:undo:")
                            /\ audit[i].finished_at > audit[i].started_at

\* C32 as stated: a SwitchBinding that an apply executes, and whose slot and
\* target provider are in the store, succeeds if and only if the oracle
\* finds the target provider compatible with the slot (no command changes
\* the slots or the providers while the apply runs).
C32_SwitchAgreesWithOracle ==
  [][(Executed("apply") /\ Len(audit') > Len(audit)) =>
       LET ops == plans[out'.plan_index].operations
           res == Last(audit').op_results
       IN  \A j \in 1..Len(res) :
             (/\ ops[j].op = "switch_binding"
              /\ AnyOf(slots, LAMBDA x : x.id = ops[j].slot_id)
              /\ AnyOf(providers, LAMBDA x : x.id = ops[j].to_provider_id))
               => (res[j].success
                     <=> CheckCompatibility(ops[j].slot_id,
                                            ops[j].to_provider_id).compatible)]_vars

\* C33: a CreateBinding fails and leaves the binding list as it was when
\* the list holds a binding of the consumer for the slot; otherwise it
\* succeeds, the list is the old list followed by one binding of the
\* operation's consumer, slot and provider.
C33_CreateBinding ==
  (out.cmd = "execute" /\ out.op.op = "create_binding") =>
    IF \E i \in 1..Len(out.before) : /\ out.before[i].consumer_id = out.op.consumer_id
                                      /\ out.before[i].slot_id = out.op.slot_id
    THEN out.error # None /\ bindings = out.before
    ELSE /\ out.error = None
         /\ Len(bindings) = Len(out.before) + 1
         /\ SubSeq(bindings, 1, Len(out.before)) = out.before
         /\ Last(bindings).consumer_id = out.op.consumer_id
         /\ Last(bindings).slot_id = out.op.slot_id
         /\ Last(bindings).provider_id = out.op.provider_id

\* a CreateBinding has failed on a list of two bindings, one of them of its
\* consumer and slot
C33_Witness ==
  /\ out.cmd = "execute" /\ out.op.op = "create_binding"
  /\ out.error = Some("binding_exists")
  /\ Len(out.before) = 2
  /\ \E i \in 1..2 : out.before[i].consumer_id # out.op.consumer_id

\* a CreateBinding has appended a binding to the bindings of other consumers
C33_Created ==
  /\ out.cmd = "execute" /\ out.op.op = "create_binding"
  /\ out.error = None
  /\ out.before # <<>>

\* the providers that the claim lets a binding be switched to: of the slot of
\* the binding, not fallback, of a priority above that of the provider the
\* binding names, and compatible with the slot under the oracle
SwitchTargets(b) ==
  {providers[k].id : k \in {n \in 1..Len(providers) :
     /\ providers[n].slot_id = b.slot_id
     /\ ~providers[n].is_fallback
     /\ \E c \in 1..Len(providers) : /\ providers[c].id = b.provider_id
                                      /\ providers[n].priority > providers[c].priority
     /\ CheckCompatibility(b.slot_id, providers[n].id).compatible}}

\* C34: the plan that plan create derives holds a SwitchBinding for a
\* binding of the store exactly when the binding has a switch target; every
\* operation is a SwitchBinding of a binding of the store, from the provider
\* the binding names to one of its switch targets.
C34_SwitchExactlyWhen ==
  [][(Len(plans') = Len(plans) + 1) =>
       LET ops == Last(plans').operations
       IN  /\ \A i \in 1..Len(bindings) :
                 (\E j \in 1..Len(ops) : ops[j].binding_id = bindings[i].id)
                   <=> SwitchTargets(bindings[i]) # {}
           /\ \A j \in 1..Len(ops) :
                 /\ ops[j].op = "switch_binding"
                 /\ \E i \in 1..Len(bindings) :
                      /\ ops[j].binding_id = bindings[i].id
                      /\ ops[j].consumer_id = bindings[i].consumer_id
                      /\ ops[j].slot_id = bindings[i].slot_id
                      /\ ops[j].from_provider_id = bindings[i].provider_id
                      /\ ops[j].to_provider_id \in SwitchTargets(bindings[i])]_vars

\* plan create has derived one switch, to p3, for the binding of c1 to p1
\* and none for the binding of c2, passing over a fallback provider and an
\* incompatible provider of higher priorities
C34_Witness ==
  /\ providers = <<P1, P3, P4, PF>>
  /\ Len(bindings) = 2
  /\ bindings[1].provider_id = P1.id
  /\ bindings[2].provider_id = P3.id
  /\ plans # <<>>
  /\ Len(plans[1].operations) = 1
  /\ plans[1].operations[1].to_provider_id = P3.id

\* an apply has ended with result failure: its rollback could not be executed
C35_RollbackFailed ==
  /\ out.cmd = "apply" /\ ~out.dry_run /\ out.error = None
  /\ audit # <<>>
  /\ Last(audit).result = "failure"

\* C35: in every audit entry that an apply has written,
\* auto_rollback_triggered is true exactly when the result is rolled_back or
\* failure, rollback_plan_id is present exactly when the result is
\* rolled_back, and an entry of result failure has a note that names the
\* rollback step that failed; after an apply that ended in failure that
\* step is the last one the rollback executed.
C35_RollbackFields ==
  /\ \A i \in 1..Len(audit) :
       ~StartsWith(audit[i].id, "audit:undo:") =>
         /\ audit[i].auto_rollback_triggered
              <=> audit[i].result \in {"rolled_back", "failure"}
         /\ audit[i].rollback_plan_id # None <=> audit[i].result = "rolled_back"
         /\ audit[i].result = "failure" =>
              \E n \in 1..Len(audit[i].notes) :
                StartsWith(audit[i].notes[n], "Rollback failed: Rollback failed at step ")
  /\ (out.cmd = "apply" /\ ~out.dry_run /\ out.error = None /\ audit # <<>>
        /\ Last(audit).result = "failure") =>
       \E n \in 1..Len(Last(audit).notes) :
         Last(audit).notes[n] = "Rollback failed: Rollback failed at step "
                                  \o ToString(Len(out.rollback_executed))

\* an apply has ended with result rolled_back
C35_RolledBack ==
  /\ out.cmd = "apply" /\ ~out.dry_run /\ out.error = None
  /\ audit # <<>>
  /\ Last(audit).result = "rolled_back"

\* C36 as stated: a SwitchBinding that fails leaves the binding list as it
\* was before the operation.
C36_FailedSwitchChangesNothing ==
  (out.cmd = "execute" /\ out.op.op = "switch_binding" /\ out.error # None)
    => bindings = out.before

\* C37 as stated: an apply of a plan whose operations are those that plan
\* create derives from the store the apply runs on executes every operation
\* with success and ends with result success.
C37_FreshPlanApplies ==
  [][(/\ Executed("apply") /\ Len(audit') > Len(audit)
      /\ plans[out'.plan_index].status = "ready"
      /\ plans[out'.plan_index].operations = GeneratePlanOperations)
       => /\ Last(audit').result = "success"
          /\ \A j \in 1..Len(Last(audit').op_results) :
                Last(audit').op_results[j].success]_vars

\* C38 as stated: a plan that plan create has derived holds at most one
\* SwitchBinding for each (consumer, slot).
C38_OneSwitchPerBinding ==
  [][(Len(plans') = Len(plans) + 1 /\ Last(plans').status = "ready") =>
       LET ops == Last(plans').operations
       IN  \A i, j \in 1..Len(ops) :
             (/\ ops[i].op = "switch_binding" /\ ops[j].op = "switch_binding"
              /\ ops[i].consumer_id = ops[j].consumer_id
              /\ ops[i].slot_id = ops[j].slot_id) => i = j]_vars

\* the fields of a plan that an apply or an undo may change
SameButStatus(p, q) == [p EXCEPT !.status = q.status, !.applied_at = q.applied_at] = q

\* C39 as stated: an apply or an undo that is not a dry run changes nothing
\* but the binding list, the audit log, and the status and applied_at of
\* the plan it was given: slots, providers, annotations, the graph and its
\* documents and every other plan stay as they were.
C39_ApplyUndoFrame ==
  [][((Executed("apply") \/ Executed("undo")) /\ out'.plan_index # 0) =>
       /\ UNCHANGED <<slots, providers, annotations, graph, files>>
       /\ Len(plans') = Len(plans)
       /\ \A i \in 1..Len(plans) :
            IF i = out'.plan_index THEN SameButStatus(plans[i], plans'[i])
            ELSE plans'[i] = plans[i]]_vars

\* C39, second part, as stated: a FileChange operation succeeds and changes
\* no binding (execute_operation is given nothing but the bindings, the
\* slots and the providers to change).
C39_FileChangeChangesNothing ==
  (out.cmd = "execute" /\ out.op.op = "file_change")
    => (out.error = None /\ bindings = out.before)

\* a FileChange has been executed on a list of bindings
C39_FileChangeExecuted ==
  out.cmd = "execute" /\ out.op.op = "file_change" /\ Len(out.before) = 2

\* C40 as stated: no two plans of the plan store have the same id.
C40_PlanIdsUnique ==
  \A i, j \in 1..Len(plans) : plans[i].id = plans[j].id => i = j

====
